---- MODULE Spec2Model ----
(***************************************************************************)
(* mirapuri-stats: the resumable crawl orchestrator (apps/scraper) and the *)
(* three-phase versioned publish protocol (apps/sync against apps/writer). *)
(*                                                                         *)
(*   Spec      the crawl orchestrator: createCrawler.start over the        *)
(*             progress store and the raw store, with process crashes and  *)
(*             re-runs.                                                    *)
(*   SyncSpec  the sync runner driving the publish API: start, upload,     *)
(*             commit or abort, and the retirement of old generations.     *)
(***************************************************************************)
EXTENDS Integers, Sequences, FiniteSets, Bags, TLC

(***************************************************************************)
(* Bounds of the model.                                                    *)
(***************************************************************************)
\* number of search keys in the shuffled sequence (keys.length)
NumKeys == 3
\* greatest number of character IDs one key's search lists
MaxCharsPerKey == 2

\* number of times the crawler process is started
MaxRuns == 2

\* a scrape may save nothing (opt-out or error) while the run's skipped and
\* error counters together are below this number
MaxFailedScrapes == 1

\* the values of config.limit the runs are started with
Limits == {2, 4}
\* config.seed
Seed == 42

\* last tick of the clock of the HTTP clients
MaxClock == 6

\* pages of one search result, and entries of one page
MaxPages == 3

MaxEntriesPerPage == 3

\* keys and characters per key of the run seen with the scraper's steps
MaxVisitKeys == 2

MaxVisitChars == 2

\* most records handed to postItems (besides the 1200 of the chunking example)
MaxRecords == 3

\* greatest chunkSizes.items a client is configured with (besides the default)
MaxChunkSize == 2

\* greatest retryCount a publish client is configured with
MaxRetryCount == 3

\* characters of the key that is handled again
MaxRevisitChars == 2

\* processes started on the key that is handled again
MaxRevisits == 2

\* syncs started against the shared store
MaxSharedSyncs == 5

\* greatest maxRetries a retry client is configured with
MaxRetriesBound == 4

\* number of characters in characters_glamour entered one at a time
MaxCharacters == 6

\* number of partner items of one popular base item
MaxPartners == 11

\* number of progress writes into crawl_progress, over all crawler names
MaxSaves == 3

\* number of runSync calls
MaxSyncRuns == 4
\* chunks postUsage splits the usage records of one version into
UsageChunks == 2
\* chunks postPairs splits the pair records of one version into
PairChunks == 1

\* version-manager: VERSIONS_TO_KEEP
VERSIONS_TO_KEEP == 3
\* writer-client: DEFAULT_RETRY_COUNT
DEFAULT_RETRY_COUNT == 3
\* version-manager: DEFAULT_VERSION, the string "0"
DEFAULT_VERSION == 0

NoRow == -1
NoVersion == -1

NoProgress == [none |-> TRUE]
NoExit == "NONE"

VARIABLES
    \* ---- crawl orchestrator ----
    progress,            \* crawl_progress row of this crawler name, or NoProgress
    rawStore,            \* character IDs that have rows in characters_glamour
    pc,                  \* position of the crawler process inside start()
    dryRun,              \* config.dryRun of the current run
    limit,               \* config.limit of the current run
    stats,               \* CrawlerStats of the current crawler instance
    existingProgress,    \* start(): what loadProgress returned
    i,                   \* start(): the loop index over keys
    characterIds,        \* start(): the list fetched for keys[i]
    ci,                  \* start(): position in characterIds
    \* ---- history of the current run (not program state) ----
    fetched,             \* shuffled positions passed to fetchAllCharacterIds, with list length
    scraped,             \* number of scraper.scrape calls
    writes,              \* the progress writes of this run, in order
    runs,                \* number of processes started so far
    \* ---- history across runs ----
    handledKeys,         \* positions whose list was fetched and whose characters were all handled
    \* ---- publish store (D1) ----
    d1,                  \* [meta, syncVersions, usage, pairs]
    \* ---- sync runner (runSync, stats phase) and its publish client ----
    rpc,                 \* position of runSync
    version,             \* runSync: let version (NoVersion is null)
    chunk,               \* postUsage / postPairs: chunks acknowledged so far
    attempt,             \* fetchWithRetry: the loop index i
    errors,              \* result.errors
    \* ---- publish API: the request being handled ----
    spc,                 \* position of the /commit or /abort handler, or "none"
    keep,                \* cleanupOldVersions: versionsToKeep
    \* ---- history of the sync runs (not program state) ----
    minted,              \* number of versions startSync has handed out
    syncRuns,            \* number of runSync calls so far
    uploadFailed,        \* an upload request of this run has thrown
    commitInvoked,       \* client.commitSync has been called in this run
    abortInvoked,        \* the version client.abortSync was called with in this run
    \* ---- runSync: its options and the completeness gate ----
    options,             \* SyncOptions of the current runSync call
    crawlComplete,       \* aggregator.isCrawlComplete(): "yes", "no", or "unasked"
    \* ---- crawl_progress as the aggregator reads it (all crawler names) ----
    crawlTable,          \* the rows: crawlerName, exitReason, updatedAt
    saves,               \* number of upserts so far (the clock of updatedAt)
    completeResult,      \* what isCrawlComplete() returned last: "none", "true", "false"
    \* ---- one fetchWithRateLimit of the retry client (apps/scraper) ----
    rtpc,                \* "idle", "loop", "returned"
    maxRetries,          \* finalConfig.maxRetries
    retryAttempt,        \* the local attempt of fetchWithRateLimit
    lastResult,
    returned,            \* the result handed to the caller
    baseCalls,           \* the results of the calls to baseClient, in order
    \* ---- the aggregator (apps/sync) over characters_glamour ----
    glamour,             \* bag of outfits, an outfit = the item of each slot
    aggregated,          \* TRUE once aggregateUsage and aggregatePairs returned
    usageRows,           \* what aggregateUsage returned
    candidates,          \* the rows of the ranked CTE, before the rank filter
    pairRows,            \* what aggregatePairs returned
    \* ---- the rate-limited HTTP clients of the scraper (createHttpClient) ----
    clock,               \* Date.now()
    lastRequestTime,     \* per client instance; 0 = no request yet
    hpc,                 \* per instance: "idle", "sleeping", "fetching"
    wakeAt,              \* per instance: when the sleep timer is due
    previousRequestTime, \* per instance: the issue time before lastRequestTime
    requestCount,        \* per instance: fetch() calls issued
    \* ---- fetchAllCharacterIds of the character list fetcher ----
    fpc,                 \* "idle", "loop", "returned"
    minLevel,            \* finalConfig.minLevel
    page,
    shouldContinue,
    listIds,             \* the local characterIds
    fetchedIds,          \* what fetchAllCharacterIds returned
    pagesSeen,           \* the answers of the upstream, one per requested page
    \* ---- one run of the crawler seen with the scraper's steps ----
    vpc,                 \* "idle", "loop", "chars", "final", "done", "failed"
    vlimit,
    vkey,                \* the loop variable i
    vids,                \* characterIds of the key
    vci,                 \* characters of the key already visited
    vstats,
    glamourRows,         \* characters with rows in characters_glamour
    cacheItems,          \* ids in items_cache
    savedIndex,          \* lastCompletedShuffledIndex in crawl_progress, -1: no row
    savedExit,           \* exitReason in crawl_progress
    scrapeResult,        \* the ScraperResult of the last scrape
    fetchedProfile,      \* what the last scrape got from the upstream
    existsReported,      \* what characterExists answered last
    profileRequested,    \* the last character visited had its profile requested
    repositoryCalled,    \* the last character visited was passed to saveGlamourData
    keysFetched,         \* calls of fetchAllCharacterIds
    checkpointFailed,    \* a saveProgress call has thrown
    listFailed,          \* the last fetchAllCharacterIds left its loop at a failed page
    \* ---- postItems of the publish client (apps/sync writer-client) ----
    wpc,              \* "idle", "posting", "returned" or "thrown"
    postedItems,      \* the array handed to postItems
    itemsChunkSize,   \* chunkSizes.items of the client
    retryCount,       \* retryCount of the client
    itemChunks,       \* chunks: what chunk(items, chunkSizes.items) returned
    chunkIndex,       \* the chunk the for loop of postItems is at (from 1)
    fetchIndex,       \* i of the for loop of fetchWithRetry
    totalInserted,    \* totalInserted of postItems
    totalSkipped,     \* totalSkipped of postItems
    lastError,        \* lastError of fetchWithRetry
    thrownError,      \* the error postItems rejected with
    requestLog,       \* the fetches of the running fetchWithRetry: <<chunk, status>>
    requestsSent,     \* how many times fetch was called
    sleptMs,          \* the delays slept by the running fetchWithRetry
    chunkCounts,      \* per accepted chunk: the counts answered and the fetches it took
    \* ---- one key handled again after an interruption (crawler, scraper, repository) ----
    xpc,                 \* "idle", "chars", "crashed" or "keydone"
    xci,                 \* start(): position in the key's characterIds
    xrows,               \* character IDs that have rows in characters_glamour
    xcache,              \* item ids in items_cache
    xstarts,             \* number of processes started on the key so far
    profileFetches,      \* per character: profiles fetched from upstream with which scrape succeeded
    \* ---- two sync runs publishing to one store (writer: version manager, sync routes) ----
    sharedD1,            \* the store: meta, sync_versions, usage, pairs
    runnerPc,            \* per run: "idle", "usage", "pairs", "commit", "commit_versions",
                         \* "cleanup_select", "cleanup_usage", "cleanup_pairs", "cleanup_versions"
    runnerVersion,       \* per run: the version startSync answered
    runnerKeep,          \* per run: versionsToKeep of its cleanupOldVersions
    sharedMinted,        \* versions minted so far
    \* ---- a statistics query of the web app (apps/web) ----
    qpc,                 \* position of the query: "idle", "resolved", "returned"
    qv,                  \* const v = version ?? (await getActiveVersion(db))
    qrows,               \* the versioned rows the statement has read
    qsupplied,           \* history: the version argument of the query (NoVersion: omitted)
    qactive              \* history: the active version when the statement ran

cvars == <<progress, rawStore, pc, dryRun, limit, stats, existingProgress, i,
           characterIds, ci, fetched, scraped, writes, runs,
           handledKeys>>

svars == <<d1, rpc, version, chunk, attempt, errors, spc, keep, minted, syncRuns,
           uploadFailed, commitInvoked, abortInvoked>>

gvars == <<options, crawlComplete>>

qvars == <<qpc, qv, qrows, qsupplied, qactive>>

pvars == <<crawlTable, saves, completeResult>>

avars == <<glamour, aggregated, usageRows, candidates, pairRows>>

rvars == <<rtpc, maxRetries, retryAttempt, lastResult, returned, baseCalls>>

hvars == <<clock, lastRequestTime, hpc, wakeAt, previousRequestTime, requestCount>>

fvars == <<fpc, minLevel, page, shouldContinue, listIds, fetchedIds, pagesSeen>>

kvars == <<vpc, vlimit, vkey, vids, vci, vstats, glamourRows, cacheItems, savedIndex, savedExit, scrapeResult, fetchedProfile, existsReported, profileRequested, repositoryCalled, keysFetched, checkpointFailed, listFailed>>

wvars == <<wpc, postedItems, itemsChunkSize, retryCount, itemChunks, chunkIndex, fetchIndex, totalInserted, totalSkipped, lastError, thrownError, requestLog, requestsSent, sleptMs, chunkCounts>>

xvars == <<xpc, xci, xrows, xcache, xstarts, profileFetches>>

yvars == <<sharedD1, runnerPc, runnerVersion, runnerKeep, sharedMinted>>

vars == <<cvars, svars, gvars, qvars, pvars, avars, rvars, hvars, fvars, kvars, wvars, xvars, yvars>>

\* what the crawl orchestrator leaves alone, what the steps of the publish
\* protocol do, what the entry of runSync does, and what a statistics query does
notCrawl == <<svars, gvars, qvars, pvars, avars, rvars, hvars, fvars, kvars, wvars, xvars, yvars>>
notSync == <<cvars, gvars, qvars, pvars, avars, rvars, hvars, fvars, kvars, wvars, xvars, yvars>>
notRunSync == <<cvars, qvars, pvars, avars, rvars, hvars, fvars, kvars, wvars, xvars, yvars>>
notQuery == <<cvars, svars, gvars, pvars, avars, rvars, hvars, fvars, kvars, wvars, xvars, yvars>>
notProgress == <<cvars, svars, gvars, qvars, avars, rvars, hvars, fvars, kvars, wvars, xvars, yvars>>
notAggregator == <<cvars, svars, gvars, qvars, pvars, rvars, hvars, fvars, kvars, wvars, xvars, yvars>>
notRetry == <<cvars, svars, gvars, qvars, pvars, avars, hvars, fvars, kvars, wvars, xvars, yvars>>
notHttp == <<cvars, svars, gvars, qvars, pvars, avars, rvars, fvars, kvars, wvars, xvars, yvars>>
notFetcher == <<cvars, svars, gvars, qvars, pvars, avars, rvars, hvars, kvars, wvars, xvars, yvars>>
notVisit == <<cvars, svars, gvars, qvars, pvars, avars, rvars, hvars, fvars, wvars, xvars, yvars>>
notPost == <<cvars, svars, gvars, qvars, pvars, avars, rvars, hvars, fvars, kvars, xvars, yvars>>
notRevisit == <<cvars, svars, gvars, qvars, pvars, avars, rvars, hvars, fvars, kvars, wvars, yvars>>
notShared == <<cvars, svars, gvars, qvars, pvars, avars, rvars, hvars, fvars, kvars, wvars, xvars>>

(***************************************************************************)
(* Crawl orchestrator: pure parts.                                         *)
(***************************************************************************)

\* the CrawlerStats object createCrawler builds
InitialStats ==
    [processedKeys |-> 0, totalKeys |-> 0, processedCharacters |-> 0,
     skippedCharacters |-> 0, errors |-> 0, exitReason |-> "COMPLETED"]

\* the full result list of the key at shuffled position p
KeyCharacters(p) == [j \in 1..MaxCharsPerKey |-> p * MaxCharsPerKey + j]

\* what fetchAllCharacterIds may return for position p: the qualifying
\* prefix accumulated until the level threshold, the last page or a failure
FetchResults(p) == {SubSeq(KeyCharacters(p), 1, n) : n \in 0..MaxCharsPerKey}

\* startShuffledIndex
ResumeIndexOffByOne(existing) ==
    IF existing = NoProgress THEN 0 ELSE existing.lastCompletedShuffledIndex

ResumeIndex(existing) ==
    IF existing = NoProgress THEN 0 ELSE existing.lastCompletedShuffledIndex + 1

\* stats.processedCharacters >= limit
LimitReachedStrict(st, lim) == st.processedCharacters > lim

LimitReached(st, lim) == st.processedCharacters >= lim

\* saveProgress: the JSON blob that replaces the stored one
ProgressJsonDropExit(data) ==
    [lastCompletedShuffledIndex |-> data.lastCompletedShuffledIndex,
     totalKeys |-> data.totalKeys,
     processedCharacters |-> data.processedCharacters,
     seed |-> data.seed,
     exitReason |-> NoExit]

ProgressJson(data) ==
    [lastCompletedShuffledIndex |-> data.lastCompletedShuffledIndex,
     totalKeys |-> data.totalKeys,
     processedCharacters |-> data.processedCharacters,
     seed |-> data.seed,
     exitReason |-> data.exitReason]

\* loadProgress: the stored row as ProgressData, or null
LoadProgress(row) == row

\* the argument of the per-key saveProgress call
KeyCheckpointAhead(idx, st) ==
    [lastCompletedShuffledIndex |-> idx + 1, totalKeys |-> st.totalKeys,
     processedCharacters |-> st.processedCharacters, seed |-> Seed,
     exitReason |-> NoExit]

KeyCheckpoint(idx, st) ==
    [lastCompletedShuffledIndex |-> idx, totalKeys |-> st.totalKeys,
     processedCharacters |-> st.processedCharacters, seed |-> Seed,
     exitReason |-> NoExit]

\* the argument of the final saveProgress call
FinalCheckpoint(st) ==
    [lastCompletedShuffledIndex |->
         IF st.processedKeys > 0 THEN st.processedKeys - 1 ELSE -1,
     totalKeys |-> st.totalKeys,
     processedCharacters |-> st.processedCharacters, seed |-> Seed,
     exitReason |-> st.exitReason]

\* the persisted lastCompletedShuffledIndex, -1 when nothing is persisted
PersistedIndex(row) ==
    IF row = NoProgress THEN -1 ELSE row.lastCompletedShuffledIndex

WriteRecord(json, before) ==
    [index |-> json.lastCompletedShuffledIndex, exitReason |-> json.exitReason,
     before |-> PersistedIndex(before)]

(***************************************************************************)
(* Crawl orchestrator: the steps of start().                               *)
(***************************************************************************)
CrawlInit ==
    /\ progress = NoProgress
    /\ rawStore = {}
    /\ pc = "idle"
    /\ dryRun = FALSE
    /\ limit = 4
    /\ stats = InitialStats
    /\ existingProgress = NoProgress
    /\ i = 0
    /\ characterIds = <<>>
    /\ ci = 0
    /\ fetched = <<>>
    /\ scraped = 0
    /\ writes = <<>>
    /\ runs = 0
    /\ handledKeys = {}

\* start() that does not test config.dryRun and goes on to load and crawl
StartDryRunCrawls ==
    /\ pc \in {"idle", "done", "crashed"}
    /\ runs < MaxRuns
    /\ runs' = runs + 1
    /\ limit' \in Limits
    /\ dryRun' = TRUE
    /\ stats' = [InitialStats EXCEPT !.totalKeys = NumKeys]
    /\ existingProgress' = LoadProgress(progress)
    /\ i' = 0
    /\ characterIds' = <<>>
    /\ ci' = 0
    /\ fetched' = <<>>
    /\ scraped' = 0
    /\ writes' = <<>>
    /\ pc' = "loop"
    /\ UNCHANGED <<progress, rawStore, handledKeys>>
    /\ UNCHANGED notCrawl

\* a new process builds a crawler and calls start(): dry run
StartDryRun ==
    /\ pc \in {"idle", "done", "crashed"}
    /\ runs < MaxRuns
    /\ runs' = runs + 1
    /\ limit' \in Limits
    /\ dryRun' = TRUE
    /\ stats' = [InitialStats EXCEPT !.totalKeys = NumKeys]
    /\ existingProgress' = NoProgress
    /\ i' = 0
    /\ characterIds' = <<>>
    /\ ci' = 0
    /\ fetched' = <<>>
    /\ scraped' = 0
    /\ writes' = <<>>
    /\ pc' = "done"
    /\ UNCHANGED <<progress, rawStore, handledKeys>>
    /\ UNCHANGED notCrawl

\* a new process builds a crawler and calls start(): progress is loaded and
\* the loop skips the positions below startShuffledIndex
StartRun ==
    /\ pc \in {"idle", "done", "crashed"}
    /\ runs < MaxRuns
    /\ runs' = runs + 1
    /\ LET existing == LoadProgress(progress)
           carried  == IF existing = NoProgress THEN 0
                       ELSE existing.processedCharacters
           first    == ResumeIndex(existing)
       IN  /\ limit' \in Limits
           /\ dryRun' = FALSE
           /\ stats' = [InitialStats EXCEPT !.totalKeys = NumKeys,
                                            !.processedCharacters = carried]
           /\ existingProgress' = existing
           /\ i' = IF first < NumKeys THEN first ELSE NumKeys
           /\ characterIds' = <<>>
           /\ ci' = 0
           /\ fetched' = <<>>
           /\ scraped' = 0
           /\ writes' = <<>>
           /\ pc' = "loop"
    /\ UNCHANGED <<progress, rawStore, handledKeys>>
    /\ UNCHANGED notCrawl

\* listFetcher.fetchAllCharacterIds(keys[i])
FetchList ==
    /\ pc = "loop"
    /\ i < NumKeys
    /\ \E ids \in FetchResults(i) :
        /\ characterIds' = ids
        /\ fetched' = Append(fetched, [pos |-> i, n |-> Len(ids)])
        /\ handledKeys' = IF Len(ids) = 0 THEN handledKeys \cup {i} ELSE handledKeys
    /\ ci' = 0
    /\ pc' = "chars"
    /\ UNCHANGED <<progress, rawStore, dryRun, limit, stats, existingProgress, i,
                   scraped, writes, runs>>
    /\ UNCHANGED notCrawl

AfterCharacter ==
    /\ ci' = ci + 1
    /\ handledKeys' = IF ci + 1 = Len(characterIds) THEN handledKeys \cup {i}
                      ELSE handledKeys

\* characterExists reports raw rows: the character is skipped
SkipExisting ==
    /\ pc = "chars"
    /\ ci < Len(characterIds)
    /\ characterIds[ci + 1] \in rawStore
    /\ stats' = [stats EXCEPT !.skippedCharacters = @ + 1]
    /\ AfterCharacter
    /\ UNCHANGED <<progress, rawStore, pc, dryRun, limit, existingProgress, i,
                   characterIds, fetched, scraped, writes, runs>>
    /\ UNCHANGED notCrawl

\* scraper.scrape succeeds and saves at least one record
ScrapeSaved ==
    /\ pc = "chars"
    /\ ci < Len(characterIds)
    /\ characterIds[ci + 1] \notin rawStore
    /\ rawStore' = rawStore \cup {characterIds[ci + 1]}
    /\ stats' = [stats EXCEPT !.processedCharacters = @ + 1]
    /\ scraped' = scraped + 1
    /\ AfterCharacter
    /\ UNCHANGED <<progress, pc, dryRun, limit, existingProgress, i,
                   characterIds, fetched, writes, runs>>
    /\ UNCHANGED notCrawl

\* scraper.scrape succeeds with savedCount = 0 (no visible item, opt-out)
ScrapeEmpty ==
    /\ pc = "chars"
    /\ ci < Len(characterIds)
    /\ characterIds[ci + 1] \notin rawStore
    /\ stats.skippedCharacters + stats.errors < MaxFailedScrapes
    /\ stats' = [stats EXCEPT !.skippedCharacters = @ + 1]
    /\ scraped' = scraped + 1
    /\ AfterCharacter
    /\ UNCHANGED <<progress, rawStore, pc, dryRun, limit, existingProgress, i,
                   characterIds, fetched, writes, runs>>
    /\ UNCHANGED notCrawl

\* scraper.scrape reports an error
ScrapeError ==
    /\ pc = "chars"
    /\ ci < Len(characterIds)
    /\ characterIds[ci + 1] \notin rawStore
    /\ stats.skippedCharacters + stats.errors < MaxFailedScrapes
    /\ stats' = [stats EXCEPT !.errors = @ + 1]
    /\ scraped' = scraped + 1
    /\ AfterCharacter
    /\ UNCHANGED <<progress, rawStore, pc, dryRun, limit, existingProgress, i,
                   characterIds, fetched, writes, runs>>
    /\ UNCHANGED notCrawl

\* KeyDone without the break that leaves the loop
KeyDoneNoBreak ==
    /\ pc = "chars"
    /\ ci = Len(characterIds)
    /\ LET st   == [stats EXCEPT !.processedKeys = @ + 1]
           json == ProgressJson(KeyCheckpoint(i, st))
       IN  /\ progress' = json
           /\ writes' = Append(writes, WriteRecord(json, progress))
           /\ IF LimitReached(st, limit)
              THEN /\ stats' = [st EXCEPT !.exitReason = "LIMIT_REACHED"]
                   /\ pc' = "loop"
                   /\ i' = i + 1
              ELSE /\ stats' = st
                   /\ pc' = "loop"
                   /\ i' = i + 1
    /\ UNCHANGED <<rawStore, dryRun, limit, existingProgress, characterIds, ci,
                   fetched, scraped, runs, handledKeys>>
    /\ UNCHANGED notCrawl

\* the key is complete: processedKeys++, the per-key checkpoint, the limit test
KeyDone ==
    /\ pc = "chars"
    /\ ci = Len(characterIds)
    /\ LET st   == [stats EXCEPT !.processedKeys = @ + 1]
           json == ProgressJson(KeyCheckpoint(i, st))
       IN  /\ progress' = json
           /\ writes' = Append(writes, WriteRecord(json, progress))
           /\ IF LimitReached(st, limit)
              THEN /\ stats' = [st EXCEPT !.exitReason = "LIMIT_REACHED"]
                   /\ pc' = "final"
                   /\ i' = i
              ELSE /\ stats' = st
                   /\ pc' = "loop"
                   /\ i' = i + 1
    /\ UNCHANGED <<rawStore, dryRun, limit, existingProgress, characterIds, ci,
                   fetched, scraped, runs, handledKeys>>
    /\ UNCHANGED notCrawl

\* the loop over keys ends because every position has been visited
LoopExhausted ==
    /\ pc = "loop"
    /\ i >= NumKeys
    /\ pc' = "final"
    /\ UNCHANGED <<progress, rawStore, dryRun, limit, stats, existingProgress, i,
                   characterIds, ci, fetched, scraped, writes, runs,
                   handledKeys>>
    /\ UNCHANGED notCrawl

\* the final saveProgress carrying exitReason; start() returns stats
FinalSave ==
    /\ pc = "final"
    /\ LET json == ProgressJson(FinalCheckpoint(stats))
       IN  /\ progress' = json
           /\ writes' = Append(writes, WriteRecord(json, progress))
    /\ pc' = "done"
    /\ UNCHANGED <<rawStore, dryRun, limit, stats, existingProgress, i,
                   characterIds, ci, fetched, scraped, runs, handledKeys>>
    /\ UNCHANGED notCrawl

\* the process is terminated between two awaited operations: what it held in
\* memory is gone, the progress row and the raw rows stay as they are
Crash ==
    /\ pc \in {"loop", "chars", "final"}
    /\ pc' = "crashed"
    /\ stats' = InitialStats
    /\ existingProgress' = NoProgress
    /\ i' = 0
    /\ characterIds' = <<>>
    /\ ci' = 0
    /\ fetched' = <<>>
    /\ scraped' = 0
    /\ writes' = <<>>
    /\ UNCHANGED <<progress, rawStore, dryRun, limit, runs, handledKeys>>
    /\ UNCHANGED notCrawl

\* the crawler is started once more after the runs that are counted: start()
\* as in StartRun, resuming from the progress the previous run persisted
StartAgain ==
    /\ pc \in {"idle", "done", "crashed"}
    /\ runs >= MaxRuns
    /\ LET existing == LoadProgress(progress)
           carried  == IF existing = NoProgress THEN 0
                       ELSE existing.processedCharacters
           first    == ResumeIndex(existing)
       IN  /\ limit' \in Limits
           /\ dryRun' = FALSE
           /\ stats' = [InitialStats EXCEPT !.totalKeys = NumKeys,
                                            !.processedCharacters = carried]
           /\ existingProgress' = existing
           /\ i' = IF first < NumKeys THEN first ELSE NumKeys
           /\ characterIds' = <<>>
           /\ ci' = 0
           /\ fetched' = <<>>
           /\ scraped' = 0
           /\ writes' = <<>>
           /\ pc' = "loop"
    /\ UNCHANGED <<progress, rawStore, runs, handledKeys>>
    /\ UNCHANGED notCrawl

\* an interruption of one of the counted runs: there are finitely many
Interrupted ==
    /\ runs < MaxRuns
    /\ Crash

(***************************************************************************)
(* Version manager (apps/writer): the statements it issues against D1.     *)
(* Versions are the numbers 1, 2, ... in the order startSync mints them;   *)
(* d1.syncVersions lists the metadata rows in ascending syncedAt.          *)
(***************************************************************************)
Range(seq) == {seq[j] : j \in 1..Len(seq)}

\* getActiveVersion
GetActiveVersion(db) == IF db.meta = NoRow THEN DEFAULT_VERSION ELSE db.meta

\* commitSync, first statement: upsert of meta.active_version
UpsertActiveVersion(db, v) == [db EXCEPT !.meta = v]

\* commitSync, second statement: insert into sync_versions
InsertSyncVersion(db, v) == [db EXCEPT !.syncVersions = Append(@, v)]

\* abortSync, first statement, also clearing the pointer when it names v
DeleteUsageAndPointer(db, v) ==
    [db EXCEPT !.usage = {r \in @ : r[1] # v},
               !.meta = IF @ = v THEN NoRow ELSE @]

\* abortSync, first statement: delete from usage where version = v
DeleteUsage(db, v) == [db EXCEPT !.usage = {r \in @ : r[1] # v}]

\* abortSync, second statement, without its where clause
DeletePairsOfAll(db, v) == [db EXCEPT !.pairs = {}]

\* abortSync, second statement: delete from pairs where version = v
DeletePairs(db, v) == [db EXCEPT !.pairs = {r \in @ : r[1] # v}]

\* cleanupOldVersions keeping the oldest VERSIONS_TO_KEEP rows
VersionsToKeepOldest(db) ==
    {db.syncVersions[j] : j \in 1..VERSIONS_TO_KEEP}

\* cleanupOldVersions: the versions of the newest VERSIONS_TO_KEEP rows
VersionsToKeep(db) ==
    LET n == Len(db.syncVersions)
    IN  {db.syncVersions[j] : j \in (n - VERSIONS_TO_KEEP + 1)..n}

\* cleanupOldVersions: the three deletes
CleanupUsage(db, kept) == [db EXCEPT !.usage = {r \in @ : r[1] \in kept}]
CleanupPairs(db, kept) == [db EXCEPT !.pairs = {r \in @ : r[1] \in kept}]
CleanupSyncVersions(db, kept) ==
    [db EXCEPT !.syncVersions = SelectSeq(@, LAMBDA v : v \in kept)]

\* POST /api/usage and /api/pairs: the batch insert of one chunk
InsertUsage(db, v, c) == [db EXCEPT !.usage = @ \cup {<<v, c>>}]
InsertPairs(db, v, c) == [db EXCEPT !.pairs = @ \cup {<<v, c>>}]

(***************************************************************************)
(* Sync runner (apps/sync): the catch block of the stats phase.            *)
(***************************************************************************)
\* where the catch block goes: abortSync only when a version was obtained
CatchTargetNoAbort(ver) == "finish"

CatchTarget(ver) == IF ver # NoVersion THEN "abort" ELSE "finish"

SyncInit ==
    /\ d1 = [meta |-> NoRow, syncVersions |-> <<>>, usage |-> {}, pairs |-> {}]
    /\ rpc = "idle"
    /\ version = NoVersion
    /\ chunk = 0
    /\ attempt = 0
    /\ errors = {}
    /\ spc = "none"
    /\ keep = {}
    /\ minted = 0
    /\ syncRuns = 0
    /\ uploadFailed = FALSE
    /\ commitInvoked = FALSE
    /\ abortInvoked = NoVersion

\* SyncOptions
StatsOnly == [dryRun |-> FALSE, itemsOnly |-> FALSE, statsOnly |-> TRUE]
SyncOptions == [dryRun : BOOLEAN, itemsOnly : BOOLEAN, statsOnly : BOOLEAN]

\* runSync is called: result is fresh, nothing of the previous call is left
EnterRunSync ==
    /\ rpc \in {"idle", "done"}
    /\ syncRuns < MaxSyncRuns
    /\ syncRuns' = syncRuns + 1
    /\ version' = NoVersion
    /\ chunk' = 0
    /\ attempt' = 0
    /\ uploadFailed' = FALSE
    /\ commitInvoked' = FALSE
    /\ abortInvoked' = NoVersion
    /\ UNCHANGED <<d1, spc, keep, minted>>
    /\ UNCHANGED notRunSync

\* where runSync goes once the gate is behind it
AfterGate(opts) ==
    IF ~opts.statsOnly /\ ~opts.dryRun THEN "items"
    ELSE IF ~opts.itemsOnly /\ ~opts.dryRun THEN "start"
    ELSE "finish"

\* a gate that lets an incomplete crawl through
GateIgnored(opts, isComplete) == AfterGate(opts)

\* the completeness gate: outside dry-run an incomplete crawl ends the call
Gate(opts, isComplete) ==
    IF ~opts.dryRun /\ ~isComplete THEN "blocked" ELSE AfterGate(opts)

\* runSync with statsOnly, the crawl complete: it reaches the stats phase
RunSync ==
    /\ EnterRunSync
    /\ options' = StatsOnly
    /\ crawlComplete' = "yes"
    /\ rpc' = Gate(StatsOnly, TRUE)
    /\ errors' = {}

\* runSync outside dry-run with any other options or an incomplete crawl
RunSyncGated ==
    /\ EnterRunSync
    /\ \E opts \in SyncOptions, isComplete \in BOOLEAN :
          /\ ~opts.dryRun
          /\ <<opts, isComplete>> # <<StatsOnly, TRUE>>
          /\ options' = opts
          /\ crawlComplete' = IF isComplete THEN "yes" ELSE "no"
          /\ IF Gate(opts, isComplete) = "blocked"
             THEN /\ errors' = {"Scraper not finished yet"}
                  /\ rpc' = "done"
             ELSE /\ errors' = {}
                  /\ rpc' = Gate(opts, isComplete)

\* runSync in dry-run: isCrawlComplete is not called, nothing is posted
RunSyncDryRun ==
    /\ EnterRunSync
    /\ \E opts \in SyncOptions :
          /\ opts.dryRun
          /\ options' = opts
          /\ rpc' = AfterGate(opts)
    /\ crawlComplete' = "unasked"
    /\ errors' = {}

\* client.postItems returns, or throws into the catch block of the items
\* phase, which records the error and goes on
PostItems ==
    /\ rpc = "items"
    /\ \E ok \in BOOLEAN :
          errors' = IF ok THEN errors ELSE errors \cup {"Items sync failed"}
    /\ rpc' = IF ~options.itemsOnly THEN "start" ELSE "finish"
    /\ UNCHANGED <<d1, version, chunk, attempt, spc, keep, minted, syncRuns,
                   uploadFailed, commitInvoked, abortInvoked>>
    /\ UNCHANGED notSync

\* the error reaches the catch block of runSync (or, from abortSync, the inner one)
Throw(upload) ==
    /\ attempt' = 0
    /\ chunk' = 0
    /\ IF rpc = "abort"
       THEN /\ errors' = errors \cup {"Abort failed"}
            /\ rpc' = "finish"
            /\ abortInvoked' = abortInvoked
       ELSE /\ errors' = errors \cup {"Stats sync failed"}
            /\ rpc' = CatchTarget(version)
            /\ abortInvoked' = IF CatchTarget(version) = "abort" THEN version
                               ELSE abortInvoked
    /\ uploadFailed' = (uploadFailed \/ upload)

\* client.startSync: POST /api/sync/start answers with a fresh version
StartSyncOk ==
    /\ rpc = "start"
    /\ minted' = minted + 1
    /\ version' = minted + 1
    /\ rpc' = "usage"
    /\ attempt' = 0
    /\ UNCHANGED <<d1, chunk, errors, spc, keep, syncRuns, uploadFailed,
                   commitInvoked, abortInvoked>>
    /\ UNCHANGED notSync

\* postUsage returning after its first chunk
PostUsageOkFirstChunkOnly ==
    /\ rpc = "usage"
    /\ <<version, chunk + 1>> \notin d1.usage
    /\ d1' = InsertUsage(d1, version, chunk + 1)
    /\ attempt' = 0
    /\ rpc' = "pairs" /\ chunk' = 0
    /\ UNCHANGED <<version, errors, spc, keep, minted, syncRuns, uploadFailed,
                   commitInvoked, abortInvoked>>
    /\ UNCHANGED notSync

\* client.postUsage: one chunk is inserted and acknowledged
PostUsageOk ==
    /\ rpc = "usage"
    /\ <<version, chunk + 1>> \notin d1.usage
    /\ d1' = InsertUsage(d1, version, chunk + 1)
    /\ attempt' = 0
    /\ IF chunk + 1 = UsageChunks
       THEN rpc' = "pairs" /\ chunk' = 0
       ELSE rpc' = rpc /\ chunk' = chunk + 1
    /\ UNCHANGED <<version, errors, spc, keep, minted, syncRuns, uploadFailed,
                   commitInvoked, abortInvoked>>
    /\ UNCHANGED notSync

\* client.postPairs: one chunk is inserted and acknowledged
PostPairsOk ==
    /\ rpc = "pairs"
    /\ <<version, chunk + 1>> \notin d1.pairs
    /\ d1' = InsertPairs(d1, version, chunk + 1)
    /\ attempt' = 0
    /\ IF chunk + 1 = PairChunks
       THEN rpc' = "range" /\ chunk' = 0
       ELSE rpc' = rpc /\ chunk' = chunk + 1
    /\ UNCHANGED <<version, errors, spc, keep, minted, syncRuns, uploadFailed,
                   commitInvoked, abortInvoked>>
    /\ UNCHANGED notSync

\* aggregator.getDataDateRange returns; client.commitSync is called next
GetDataDateRange ==
    /\ rpc = "range"
    /\ rpc' = "commit"
    /\ commitInvoked' = TRUE
    /\ UNCHANGED <<d1, version, chunk, attempt, errors, spc, keep, minted,
                   syncRuns, uploadFailed, abortInvoked>>
    /\ UNCHANGED notSync

\* aggregateUsage, aggregatePairs or getDataDateRange throws
AggregatorThrows ==
    /\ \/ rpc \in {"usage", "pairs"} /\ chunk = 0 /\ attempt = 0
       \/ rpc = "range"
    /\ Throw(FALSE)
    /\ UNCHANGED <<d1, version, spc, keep, minted, syncRuns, commitInvoked>>
    /\ UNCHANGED notSync

\* fetchWithRetry: the attempt gets a 5xx or a network error before the
\* handler has changed anything; it is retried unless it was the last one
AttemptServerError ==
    /\ rpc \in {"start", "usage", "pairs", "commit", "abort"}
    /\ spc = "none"
    /\ IF attempt < DEFAULT_RETRY_COUNT - 1
       THEN /\ attempt' = attempt + 1
            /\ UNCHANGED <<rpc, chunk, errors, uploadFailed, abortInvoked>>
       ELSE Throw(rpc \in {"usage", "pairs"})
    /\ UNCHANGED <<d1, version, spc, keep, minted, syncRuns, commitInvoked>>
    /\ UNCHANGED notSync

\* fetchWithRetry: 401 or 403 is thrown at once; a 400 comes back as a
\* response that is not ok and the client method throws
AttemptRejected ==
    /\ rpc \in {"start", "usage", "pairs", "commit", "abort"}
    /\ spc = "none"
    /\ \E status \in {400, 401, 403} : Throw(rpc \in {"usage", "pairs"})
    /\ UNCHANGED <<d1, version, spc, keep, minted, syncRuns, commitInvoked>>
    /\ UNCHANGED notSync

\* POST /api/sync/commit: the handler starts (body read, previousVersion read)
CommitBegin ==
    /\ rpc = "commit"
    /\ spc = "none"
    /\ spc' = "commit_meta"
    /\ UNCHANGED <<d1, rpc, version, chunk, attempt, errors, keep, minted,
                   syncRuns, uploadFailed, commitInvoked, abortInvoked>>
    /\ UNCHANGED notSync

\* commitSync: active_version is upserted
CommitMeta ==
    /\ spc = "commit_meta"
    /\ d1' = UpsertActiveVersion(d1, version)
    /\ spc' = "commit_versions"
    /\ UNCHANGED <<rpc, version, chunk, attempt, errors, keep, minted,
                   syncRuns, uploadFailed, commitInvoked, abortInvoked>>
    /\ UNCHANGED notSync

\* commitSync: the sync_versions row is inserted (version is the primary key)
CommitVersions ==
    /\ spc = "commit_versions"
    /\ version \notin Range(d1.syncVersions)
    /\ d1' = InsertSyncVersion(d1, version)
    /\ spc' = "cleanup_select"
    /\ UNCHANGED <<rpc, version, chunk, attempt, errors, keep, minted,
                   syncRuns, uploadFailed, commitInvoked, abortInvoked>>
    /\ UNCHANGED notSync

\* the handler answers 200: commitSync of the client returns, the try block ends
Respond ==
    /\ spc' = "none"
    /\ attempt' = 0
    /\ rpc' = "finish"

\* cleanupOldVersions: at most VERSIONS_TO_KEEP rows, nothing to delete
CleanupNothing ==
    /\ spc = "cleanup_select"
    /\ Len(d1.syncVersions) <= VERSIONS_TO_KEEP
    /\ Respond
    /\ UNCHANGED <<d1, version, chunk, errors, keep, minted, syncRuns,
                   uploadFailed, commitInvoked, abortInvoked>>
    /\ UNCHANGED notSync

\* cleanupOldVersions: the newest VERSIONS_TO_KEEP versions are selected
CleanupSelect ==
    /\ spc = "cleanup_select"
    /\ Len(d1.syncVersions) > VERSIONS_TO_KEEP
    /\ keep' = VersionsToKeep(d1)
    /\ spc' = "cleanup_usage"
    /\ UNCHANGED <<d1, rpc, version, chunk, attempt, errors, minted, syncRuns,
                   uploadFailed, commitInvoked, abortInvoked>>
    /\ UNCHANGED notSync

CleanupDeleteUsage ==
    /\ spc = "cleanup_usage"
    /\ d1' = CleanupUsage(d1, keep)
    /\ spc' = "cleanup_pairs"
    /\ UNCHANGED <<rpc, version, chunk, attempt, errors, keep, minted,
                   syncRuns, uploadFailed, commitInvoked, abortInvoked>>
    /\ UNCHANGED notSync

CleanupDeletePairs ==
    /\ spc = "cleanup_pairs"
    /\ d1' = CleanupPairs(d1, keep)
    /\ spc' = "cleanup_versions"
    /\ UNCHANGED <<rpc, version, chunk, attempt, errors, keep, minted,
                   syncRuns, uploadFailed, commitInvoked, abortInvoked>>
    /\ UNCHANGED notSync

CleanupDeleteVersions ==
    /\ spc = "cleanup_versions"
    /\ d1' = CleanupSyncVersions(d1, keep)
    /\ Respond
    /\ UNCHANGED <<version, chunk, errors, keep, minted, syncRuns,
                   uploadFailed, commitInvoked, abortInvoked>>
    /\ UNCHANGED notSync

\* POST /api/sync/abort: the handler starts
AbortBegin ==
    /\ rpc = "abort"
    /\ spc = "none"
    /\ spc' = "abort_usage"
    /\ UNCHANGED <<d1, rpc, version, chunk, attempt, errors, keep, minted,
                   syncRuns, uploadFailed, commitInvoked, abortInvoked>>
    /\ UNCHANGED notSync

\* abortSync: the usage rows of the version are deleted
AbortDeleteUsage ==
    /\ spc = "abort_usage"
    /\ d1' = DeleteUsage(d1, version)
    /\ spc' = "abort_pairs"
    /\ UNCHANGED <<rpc, version, chunk, attempt, errors, keep, minted,
                   syncRuns, uploadFailed, commitInvoked, abortInvoked>>
    /\ UNCHANGED notSync

\* abortSync: the pair rows of the version are deleted; the handler answers 200
AbortDeletePairs ==
    /\ spc = "abort_pairs"
    /\ d1' = DeletePairs(d1, version)
    /\ Respond
    /\ UNCHANGED <<version, chunk, errors, keep, minted, syncRuns,
                   uploadFailed, commitInvoked, abortInvoked>>
    /\ UNCHANGED notSync

\* a statement of the handler fails (D1 error, primary-key conflict): the
\* handler answers 500, which fetchWithRetry retries unless it was the last attempt
HandlerFails ==
    /\ spc # "none"
    /\ spc' = "none"
    /\ IF attempt < DEFAULT_RETRY_COUNT - 1
       THEN /\ attempt' = attempt + 1
            /\ UNCHANGED <<rpc, chunk, errors, uploadFailed, abortInvoked>>
       ELSE Throw(rpc \in {"usage", "pairs"})
    /\ UNCHANGED <<d1, version, keep, minted, syncRuns, commitInvoked>>
    /\ UNCHANGED notSync

\* the cleanup phase of runSync (only when no error was recorded); runSync returns
Finish ==
    /\ rpc = "finish"
    /\ rpc' = "done"
    /\ UNCHANGED <<d1, version, chunk, attempt, errors, spc, keep, minted,
                   syncRuns, uploadFailed, commitInvoked, abortInvoked>>
    /\ UNCHANGED notSync

SyncNext ==
    \/ RunSync
    \/ StartSyncOk
    \/ PostUsageOk
    \/ PostPairsOk
    \/ GetDataDateRange
    \/ AggregatorThrows
    \/ AttemptServerError
    \/ AttemptRejected
    \/ CommitBegin
    \/ CommitMeta
    \/ CommitVersions
    \/ CleanupNothing
    \/ CleanupSelect
    \/ CleanupDeleteUsage
    \/ CleanupDeletePairs
    \/ CleanupDeleteVersions
    \/ AbortBegin
    \/ AbortDeleteUsage
    \/ AbortDeletePairs
    \/ HandlerFails
    \/ Finish

(***************************************************************************)
(* Statistics queries (apps/web/src/lib/queries.ts): the version is        *)
(* resolved first, then one statement reads usage and pairs.               *)
(***************************************************************************)
\* a statement whose pairs subquery reads the active version of the moment
QueryRowsReResolved(db, v) ==
    {<<"usage", r>> : r \in {u \in db.usage : u[1] = v}}
        \cup {<<"pairs", r>> : r \in {p \in db.pairs : p[1] = GetActiveVersion(db)}}

\* the rows of usage and of pairs the statement reads: every version filter
\* is bound to v
QueryRows(db, v) ==
    {<<"usage", r>> : r \in {u \in db.usage : u[1] = v}}
        \cup {<<"pairs", r>> : r \in {p \in db.pairs : p[1] = v}}

(***************************************************************************)
(* The completeness check of the aggregator (apps/sync) over the rows of   *)
(* crawl_progress, one row per crawler name.                               *)
(***************************************************************************)
CrawlerNames == {"lodestone", "second"}
ExitReasons == {NoExit, "COMPLETED", "LIMIT_REACHED"}

\* saveProgress: upsert of the row of data.crawlerName, updatedAt = now
UpsertProgress(table, name, exit, now) ==
    {r \in table : r.crawlerName # name}
        \cup {[crawlerName |-> name, exitReason |-> exit, updatedAt |-> now]}

\* select().from(crawlProgress).limit(1): there is no order by and no where,
\* so the row is any row of the table
FirstRows(table) == table

\* isCrawlComplete on the row the select returned
CompleteOn(row) ==
    IF row.exitReason \in {"COMPLETED", "LIMIT_REACHED"} THEN "true" ELSE "false"

ProgressInit ==
    /\ crawlTable = {}
    /\ saves = 0
    /\ completeResult = "none"

\* a crawler writes a checkpoint (per key: no exitReason; final: with one)
SaveNamedProgress ==
    /\ saves < MaxSaves
    /\ \E name \in CrawlerNames, exit \in ExitReasons :
          crawlTable' = UpsertProgress(crawlTable, name, exit, saves + 1)
    /\ saves' = saves + 1
    /\ completeResult' = "none"
    /\ UNCHANGED notProgress

\* isCrawlComplete(): no row, or the row that came back
IsCrawlComplete ==
    /\ completeResult = "none"
    /\ IF crawlTable = {}
       THEN completeResult' = "false"
       ELSE \E row \in FirstRows(crawlTable) : completeResult' = CompleteOn(row)
    /\ UNCHANGED <<crawlTable, saves>>
    /\ UNCHANGED notProgress

ProgressNext ==
    \/ SaveNamedProgress
    \/ IsCrawlComplete

(***************************************************************************)
(* The aggregator (apps/sync): usage counts and bidirectional pair ranks   *)
(* over characters_glamour.  The primary key is (character_id, slot_id),   *)
(* so a character has at most one item per slot; the queries depend only   *)
(* on how many characters wear what, so the table is a bag of outfits.     *)
(* Item ids are numbers here; their order stands for the order of          *)
(* the varchar ids.                                                        *)
(***************************************************************************)
MIN_COUNT_THRESHOLD == 3
TOP_PAIRS_LIMIT == 10
EXCLUDED_ITEM_IDS == {19, 29, 39, 49, 59}
PAIR_SLOTS ==
    {[slotA |-> 1, slotB |-> 2], [slotA |-> 2, slotB |-> 3],
     [slotA |-> 2, slotB |-> 4], [slotA |-> 4, slotB |-> 5]}

SLOT_IDS == 1..5

HavingOneLess(c) == c >= MIN_COUNT_THRESHOLD - 1

\* HAVING count(*) >= MIN_COUNT_THRESHOLD
Having(c) == c >= MIN_COUNT_THRESHOLD
\* a slot without a row in characters_glamour
NoItem == 0

\* outfits a character entered one at a time can wear: <<head, body, hands,
\* legs, feet>>
Outfits ==
    {<<h, b, g, 41, 51>> : h \in {11, 12}, b \in {21, 22}, g \in {31, 39}}

\* a table where the head item 11 is worn with MaxPartners body items, the
\* i-th of them by n[i] characters
PopularTable(n) ==
    [o \in {<<11, 200 + k, NoItem, NoItem, NoItem>> : k \in 1..MaxPartners}
        |-> n[o[2] - 200]]

\* the item ids of the rows with slot_id = s
ItemsAt(g, s) == {o[s] : o \in DOMAIN g} \ {NoItem}

\* count() of the group (slot_id, item_id): the characters wearing x in s
UsageCount(g, s, x) ==
    BagCardinality([o \in {w \in DOMAIN g : w[s] = x} |-> g[o]])

\* COUNT(*) of the group (a.item_id, b.item_id) of the self-join: the
\* characters wearing a in slot sa and b in slot sb
PairCount(g, sa, sb, a, b) ==
    BagCardinality([o \in {w \in DOMAIN g : w[sa] = a /\ w[sb] = b} |-> g[o]])

aggregateUsage(g) ==
    {[slotId |-> p[1], itemId |-> p[2], usageCount |-> UsageCount(g, p[1], p[2])] :
        p \in {q \in SLOT_IDS \X UNION {ItemsAt(g, s) : s \in SLOT_IDS} :
                  /\ q[2] \in ItemsAt(g, q[1])
                  /\ q[2] \notin EXCLUDED_ITEM_IDS
                  /\ Having(UsageCount(g, q[1], q[2]))}}

\* the CTE base_pairs
BasePairs(g, slotA, slotB) ==
    {[item_id_a |-> p[1], item_id_b |-> p[2],
      pair_count |-> PairCount(g, slotA, slotB, p[1], p[2])] :
        p \in {q \in ItemsAt(g, slotA) \X ItemsAt(g, slotB) :
                  /\ q[1] \notin EXCLUDED_ITEM_IDS
                  /\ q[2] \notin EXCLUDED_ITEM_IDS
                  /\ Having(PairCount(g, slotA, slotB, q[1], q[2]))}}

\* the CTE directed: the rows of the two selects differ in base_slot_id, so
\* UNION ALL is a union
Directed(g, slotA, slotB) ==
    {[baseItemId |-> r.item_id_a, partnerItemId |-> r.item_id_b,
      baseSlotId |-> slotA, partnerSlotId |-> slotB, pairCount |-> r.pair_count] :
        r \in BasePairs(g, slotA, slotB)}
    \cup
    {[baseItemId |-> r.item_id_b, partnerItemId |-> r.item_id_a,
      baseSlotId |-> slotB, partnerSlotId |-> slotA, pairCount |-> r.pair_count] :
        r \in BasePairs(g, slotA, slotB)}

SameSlots(r, o) ==
    /\ o.baseSlotId = r.baseSlotId
    /\ o.partnerSlotId = r.partnerSlotId

\* PARTITION BY base_slot_id, partner_slot_id, base_item_id
SamePartition(r, o) ==
    /\ o.baseSlotId = r.baseSlotId
    /\ o.partnerSlotId = r.partnerSlotId
    /\ o.baseItemId = r.baseItemId

BeforeByCountOnly(o, r) == o.pairCount > r.pairCount

\* ORDER BY pair_count DESC, partner_item_id ASC: o comes before r
Before(o, r) ==
    \/ o.pairCount > r.pairCount
    \/ o.pairCount = r.pairCount /\ o.partnerItemId < r.partnerItemId

\* ROW_NUMBER() of r among the rows
RowNumber(rows, r) ==
    1 + Cardinality({o \in rows : SamePartition(r, o) /\ Before(o, r)})

\* the CTE ranked
Ranked(g, slotA, slotB) ==
    LET directed == Directed(g, slotA, slotB)
    IN  {[baseItemId |-> r.baseItemId, partnerItemId |-> r.partnerItemId,
          baseSlotId |-> r.baseSlotId, partnerSlotId |-> r.partnerSlotId,
          pairCount |-> r.pairCount, rank |-> RowNumber(directed, r)] :
            r \in directed}

aggregateBidirectionalPairs(g, slotA, slotB) ==
    {r \in Ranked(g, slotA, slotB) : r.rank <= TOP_PAIRS_LIMIT}

aggregatePairs(g) ==
    UNION {aggregateBidirectionalPairs(g, p.slotA, p.slotB) : p \in PAIR_SLOTS}

AggregatorInit ==
    /\ glamour = EmptyBag
    /\ aggregated = FALSE
    /\ usageRows = {}
    /\ candidates = {}
    /\ pairRows = {}

\* the scraper stored one more character
AddCharacter ==
    /\ BagCardinality(glamour) < MaxCharacters
    /\ \E o \in Outfits : glamour' = glamour (+) SetToBag({o})
    /\ aggregated' = FALSE
    /\ usageRows' = {} /\ candidates' = {} /\ pairRows' = {}
    /\ UNCHANGED notAggregator

\* the scraper stored the wearers of a popular head item
LoadPopular ==
    /\ glamour = EmptyBag
    /\ \E n \in [1..MaxPartners -> {MIN_COUNT_THRESHOLD, MIN_COUNT_THRESHOLD + 1}] :
          glamour' = PopularTable(n)
    /\ aggregated' = FALSE
    /\ usageRows' = {} /\ candidates' = {} /\ pairRows' = {}
    /\ UNCHANGED notAggregator

\* aggregateUsage() and aggregatePairs() on the table as it is
Aggregate ==
    /\ ~aggregated
    /\ aggregated' = TRUE
    /\ usageRows' = aggregateUsage(glamour)
    /\ candidates' = UNION {Ranked(glamour, p.slotA, p.slotB) : p \in PAIR_SLOTS}
    /\ pairRows' = aggregatePairs(glamour)
    /\ UNCHANGED glamour
    /\ UNCHANGED notAggregator

AggregatorNext ==
    \/ AddCharacter
    \/ LoadPopular
    \/ Aggregate

(***************************************************************************)
(* The retry client of the scraper: createRetryHttpClient wraps a base     *)
(* client; one call of fetchWithRateLimit is modelled, the base client     *)
(* answering each call with any result.                                    *)
(***************************************************************************)
DEFAULT_MAX_RETRIES == 3
retryableStatusCodes == {429, 503, 0}

\* what the base client can answer
HTTPResults ==
    {[success |-> TRUE, statusCode |-> 200]}
        \cup {[success |-> FALSE, statusCode |-> c] : c \in {429, 503, 0, 404, 500}}

NoResult == [success |-> FALSE, statusCode |-> -1]

\* the if inside the loop: success or a failure that is not retried
ReturnsAtOnce(result) ==
    result.success \/ result.statusCode \notin retryableStatusCodes

LoopGuardOneMore(a, n) == a < n

\* the loop condition
LoopGuard(a, n) == a < n - 1

RetryInit ==
    /\ rtpc = "idle"
    /\ maxRetries = DEFAULT_MAX_RETRIES
    /\ retryAttempt = 0
    /\ lastResult = NoResult
    /\ returned = NoResult
    /\ baseCalls = <<>>

\* createRetryHttpClient(baseClient, config), then fetchWithRateLimit(url) up
\* to the loop: attempt = 0 and the first call of the base client
RetryFetch ==
    /\ rtpc = "idle"
    /\ maxRetries' \in 1..MaxRetriesBound
    /\ retryAttempt' = 0
    /\ \E result \in HTTPResults :
          /\ lastResult' = result
          /\ baseCalls' = <<result>>
    /\ rtpc' = "loop"
    /\ UNCHANGED returned
    /\ UNCHANGED notRetry

\* inside the loop: return lastResult
RetryReturnsAtOnce ==
    /\ rtpc = "loop"
    /\ LoopGuard(retryAttempt, maxRetries)
    /\ ReturnsAtOnce(lastResult)
    /\ returned' = lastResult
    /\ rtpc' = "returned"
    /\ UNCHANGED <<maxRetries, retryAttempt, lastResult, baseCalls>>
    /\ UNCHANGED notRetry

\* inside the loop: attempt++, sleep, call the base client again
RetryAgain ==
    /\ rtpc = "loop"
    /\ LoopGuard(retryAttempt, maxRetries)
    /\ ~ReturnsAtOnce(lastResult)
    /\ retryAttempt' = retryAttempt + 1
    /\ \E result \in HTTPResults :
          /\ lastResult' = result
          /\ baseCalls' = Append(baseCalls, result)
    /\ UNCHANGED <<rtpc, maxRetries, returned>>
    /\ UNCHANGED notRetry

\* the loop ended: return lastResult
RetryExhausted ==
    /\ rtpc = "loop"
    /\ ~LoopGuard(retryAttempt, maxRetries)
    /\ returned' = lastResult
    /\ rtpc' = "returned"
    /\ UNCHANGED <<maxRetries, retryAttempt, lastResult, baseCalls>>
    /\ UNCHANGED notRetry

RetryNext ==
    \/ RetryFetch
    \/ RetryReturnsAtOnce
    \/ RetryAgain
    \/ RetryExhausted

(***************************************************************************)
(* The rate-limited HTTP client (createHttpClient).  Two instances are     *)
(* created; each is called sequentially (the next call starts after the    *)
(* previous one returned), the instances run side by side.  A timer fires  *)
(* at its due time or later.                                               *)
(***************************************************************************)
HttpClients == {1, 2}

\* finalConfig.rateLimitMs of each instance, in clock ticks
RateLimitMs == [c \in HttpClients |-> IF c = 1 THEN 2 ELSE 3]

SleepNothing(last, now, rate) == 0

\* the time to sleep before the request: the remainder of the interval
SleepMs(last, now, rate) ==
    IF last > 0 /\ now - last < rate THEN rate - (now - last) ELSE 0

HttpInit ==
    /\ clock = 1
    /\ lastRequestTime = [c \in HttpClients |-> 0]
    /\ hpc = [c \in HttpClients |-> "idle"]
    /\ wakeAt = [c \in HttpClients |-> 0]
    /\ previousRequestTime = [c \in HttpClients |-> 0]
    /\ requestCount = [c \in HttpClients |-> 0]

\* lastRequestTime = Date.now(); fetch(url, ...)
IssueRequest(c) ==
    /\ lastRequestTime' = [lastRequestTime EXCEPT ![c] = clock]
    /\ previousRequestTime' = [previousRequestTime EXCEPT ![c] = lastRequestTime[c]]
    /\ requestCount' = [requestCount EXCEPT ![c] = @ + 1]
    /\ hpc' = [hpc EXCEPT ![c] = "fetching"]

\* time passes
Tick ==
    /\ clock < MaxClock
    /\ clock' = clock + 1
    /\ UNCHANGED <<lastRequestTime, hpc, wakeAt, previousRequestTime, requestCount>>
    /\ UNCHANGED notHttp

\* fetchWithRateLimit(url) is called and need not wait
FetchNow(c) ==
    /\ hpc[c] = "idle"
    /\ SleepMs(lastRequestTime[c], clock, RateLimitMs[c]) = 0
    /\ IssueRequest(c)
    /\ UNCHANGED <<clock, wakeAt>>
    /\ UNCHANGED notHttp

\* fetchWithRateLimit(url) is called too early: await sleep(remainder)
FetchSleeps(c) ==
    /\ hpc[c] = "idle"
    /\ SleepMs(lastRequestTime[c], clock, RateLimitMs[c]) > 0
    /\ wakeAt' = [wakeAt EXCEPT ![c] =
                     clock + SleepMs(lastRequestTime[c], clock, RateLimitMs[c])]
    /\ hpc' = [hpc EXCEPT ![c] = "sleeping"]
    /\ UNCHANGED <<clock, lastRequestTime, previousRequestTime, requestCount>>
    /\ UNCHANGED notHttp

\* the timer fired: the request is issued
FetchWakes(c) ==
    /\ hpc[c] = "sleeping"
    /\ clock >= wakeAt[c]
    /\ IssueRequest(c)
    /\ UNCHANGED <<clock, wakeAt>>
    /\ UNCHANGED notHttp

\* the response (or the network error) arrived: the result is returned
FetchReturns(c) ==
    /\ hpc[c] = "fetching"
    /\ hpc' = [hpc EXCEPT ![c] = "idle"]
    /\ UNCHANGED <<clock, lastRequestTime, wakeAt, previousRequestTime, requestCount>>
    /\ UNCHANGED notHttp

HttpNext ==
    \/ Tick
    \/ \E c \in HttpClients : FetchNow(c)
    \/ \E c \in HttpClients : FetchSleeps(c)
    \/ \E c \in HttpClients : FetchWakes(c)
    \/ \E c \in HttpClients : FetchReturns(c)

(***************************************************************************)
(* The character list fetcher (createCharacterListFetcher).  The upstream  *)
(* answers each page request with a failure or with a parsed page: its     *)
(* entries (characterId, level) and whether it has a next-page link.       *)
(***************************************************************************)
DEFAULT_MIN_LEVEL == 100
Levels == {99, 100}

\* the upstream call failed (or carried no html)
Failure == [success |-> FALSE, levels |-> <<>>, hasNextPage |-> FALSE]

\* the id of the entry at position k of page p
EntryId(p, k) == p * 10 + k

\* the answers page p can get; the last page has no next-page link
PageAnswers(p) ==
    {Failure} \cup
    {[success |-> TRUE, levels |-> l, hasNextPage |-> n] :
        l \in UNION {[1..len -> Levels] : len \in 0..MaxEntriesPerPage},
        n \in IF p < MaxPages THEN BOOLEAN ELSE {FALSE}}

\* the position of the first entry below min, or 0: the else branch of the
\* for loop
FirstBelow(levels, min) ==
    IF \E k \in 1..Len(levels) : levels[k] < min
    THEN CHOOSE k \in 1..Len(levels) :
            /\ levels[k] < min
            /\ \A j \in 1..(k - 1) : levels[j] >= min
    ELSE 0

\* the ids the for loop pushes: the entries before the first one below min
Pushed(p, levels, min) ==
    LET stop == FirstBelow(levels, min)
        last == IF stop = 0 THEN Len(levels) ELSE stop - 1
    IN  [k \in 1..last |-> EntryId(p, k)]

ContinuesWithNextPage(levels, hasNext, min) == hasNext

\* shouldContinue after the for loop and the next-page test
Continues(levels, hasNext, min) == FirstBelow(levels, min) = 0 /\ hasNext

ReturnsNothing(ids) == <<>>

\* return characterIds
Returns(ids) == ids

FetcherInit ==
    /\ fpc = "idle"
    /\ minLevel = DEFAULT_MIN_LEVEL
    /\ page = 1
    /\ shouldContinue = TRUE
    /\ listIds = <<>>
    /\ fetchedIds = <<>>
    /\ pagesSeen = <<>>

\* createCharacterListFetcher(httpClient, config); fetchAllCharacterIds(key)
\* up to the loop
FetchAllCharacterIds ==
    /\ fpc = "idle"
    /\ minLevel' \in {99, DEFAULT_MIN_LEVEL}
    /\ page' = 1
    /\ shouldContinue' = TRUE
    /\ listIds' = <<>>
    /\ pagesSeen' = <<>>
    /\ fpc' = "loop"
    /\ UNCHANGED fetchedIds
    /\ UNCHANGED notFetcher

\* one pass of the loop: the upstream failed, break
PageFails ==
    /\ fpc = "loop" /\ shouldContinue
    /\ pagesSeen' = Append(pagesSeen, Failure)
    /\ fetchedIds' = Returns(listIds)
    /\ fpc' = "returned"
    /\ UNCHANGED <<minLevel, page, shouldContinue, listIds>>
    /\ UNCHANGED notFetcher

\* one pass of the loop: the page has no character, break
PageEmpty ==
    /\ fpc = "loop" /\ shouldContinue
    /\ \E answer \in PageAnswers(page) :
          /\ answer.success /\ answer.levels = <<>>
          /\ pagesSeen' = Append(pagesSeen, answer)
    /\ fetchedIds' = Returns(listIds)
    /\ fpc' = "returned"
    /\ UNCHANGED <<minLevel, page, shouldContinue, listIds>>
    /\ UNCHANGED notFetcher

\* one pass of the loop: the page has characters
PageParsed ==
    /\ fpc = "loop" /\ shouldContinue
    /\ \E answer \in PageAnswers(page) :
          /\ answer.success /\ answer.levels # <<>>
          /\ pagesSeen' = Append(pagesSeen, answer)
          /\ listIds' = listIds \o Pushed(page, answer.levels, minLevel)
          /\ shouldContinue' = Continues(answer.levels, answer.hasNextPage, minLevel)
    /\ page' = page + 1
    /\ UNCHANGED <<fpc, minLevel, fetchedIds>>
    /\ UNCHANGED notFetcher

\* the loop ended
FetcherReturns ==
    /\ fpc = "loop" /\ ~shouldContinue
    /\ fetchedIds' = Returns(listIds)
    /\ fpc' = "returned"
    /\ UNCHANGED <<minLevel, page, shouldContinue, listIds, pagesSeen>>
    /\ UNCHANGED notFetcher

FetcherNext ==
    \/ FetchAllCharacterIds
    \/ PageFails
    \/ PageEmpty
    \/ PageParsed
    \/ FetcherReturns

(***************************************************************************)
(* One run of the crawler (no resume) with the steps of the scraper and of *)
(* the repository: existence check, profile request, opt-out test, parse,  *)
(* save, and the checkpoints, each of which can fail.                      *)
(***************************************************************************)
\* the ids fetchAllCharacterIds returns for key k when it finds n characters
VisitIds(k, n) == [j \in 1..n |-> k * 10 + j]

\* the characters that can have raw rows before the run
EarlierCharacters == {1, 11}

\* item ids a profile can show
ProfileItems == {1, 2}

\* what the upstream answers to a profile request
Profiles ==
    {[http |-> "fail", optedOut |-> FALSE, items |-> {}]} \cup
    [http : {"ok"}, optedOut : BOOLEAN, items : SUBSET ProfileItems]

NoProfile == [http |-> "none", optedOut |-> FALSE, items |-> {}]

NoScrape == [success |-> FALSE, savedCount |-> -1, optedOut |-> FALSE,
             error |-> "none"]

\* how the database treats saveGlamourData
DbOutcomes == {"ok", "glamour_insert_fails", "cache_insert_fails"}

IsOptedOutNever(profile) == FALSE

\* isOptedOut(httpResult.html)
IsOptedOut(profile) == profile.optedOut

\* repository.saveGlamourData(characterId, glamourData): the RepositoryResult
\* and the tables afterwards
SaveGlamourData(c, items, db, rows, cache) ==
    IF items = {}
    THEN [success |-> TRUE, insertedCount |-> 0, rows |-> rows, cache |-> cache]
    ELSE IF db = "glamour_insert_fails" \/ c \in rows
    THEN [success |-> FALSE, insertedCount |-> 0, rows |-> rows, cache |-> cache]
    ELSE IF db = "cache_insert_fails"
    THEN [success |-> FALSE, insertedCount |-> 0, rows |-> rows \cup {c},
          cache |-> cache]
    ELSE [success |-> TRUE, insertedCount |-> Cardinality(items),
          rows |-> rows \cup {c}, cache |-> cache \cup items]

\* scraper.scrape(characterId): the ScraperResult, the tables afterwards and
\* whether the repository was called
Scrape(c, profile, db, rows, cache) ==
    IF profile.http = "fail"
    THEN [result |-> [success |-> FALSE, savedCount |-> 0, optedOut |-> FALSE,
                      error |-> "HTTP_ERROR"],
          rows |-> rows, cache |-> cache, repository |-> FALSE]
    ELSE IF IsOptedOut(profile)
    THEN [result |-> [success |-> TRUE, savedCount |-> 0, optedOut |-> TRUE,
                      error |-> "none"],
          rows |-> rows, cache |-> cache, repository |-> FALSE]
    ELSE LET saveResult == SaveGlamourData(c, profile.items, db, rows, cache)
         IN  IF ~saveResult.success
             THEN [result |-> [success |-> FALSE, savedCount |-> 0,
                               optedOut |-> FALSE, error |-> "DB_ERROR"],
                   rows |-> saveResult.rows, cache |-> saveResult.cache,
                   repository |-> TRUE]
             ELSE [result |-> [success |-> TRUE,
                               savedCount |-> saveResult.insertedCount,
                               optedOut |-> FALSE, error |-> "none"],
                   rows |-> saveResult.rows, cache |-> saveResult.cache,
                   repository |-> TRUE]

\* characterExists(characterId); a failing query is answered with false
CharacterExists(c, rows, queryFails) == IF queryFails THEN FALSE ELSE c \in rows

CountErrorAsSkipped(st, result) ==
    IF result.success /\ result.savedCount > 0
    THEN [st EXCEPT !.processedCharacters = @ + 1]
    ELSE [st EXCEPT !.skippedCharacters = @ + 1]

\* the crawler's counting of a ScraperResult
CountResult(st, result) ==
    IF result.success
    THEN IF result.savedCount > 0
         THEN [st EXCEPT !.processedCharacters = @ + 1]
         ELSE [st EXCEPT !.skippedCharacters = @ + 1]
    ELSE [st EXCEPT !.errors = @ + 1]

VisitInit ==
    /\ vpc = "idle"
    /\ vlimit = 5
    /\ vkey = 0
    /\ vids = <<>>
    /\ vci = 0
    /\ vstats = InitialStats
    /\ glamourRows = {}
    /\ cacheItems = {}
    /\ savedIndex = -1
    /\ savedExit = NoExit
    /\ scrapeResult = NoScrape
    /\ fetchedProfile = NoProfile
    /\ existsReported = FALSE
    /\ profileRequested = FALSE
    /\ repositoryCalled = FALSE
    /\ keysFetched = 0
    /\ checkpointFailed = FALSE
    /\ listFailed = FALSE

\* createCrawler and start() up to the loop, no progress row; some
\* characters have raw rows from before
VisitStart ==
    /\ vpc = "idle"
    /\ vlimit' \in {1, 5}
    /\ glamourRows' \in SUBSET EarlierCharacters
    /\ vstats' = [InitialStats EXCEPT !.totalKeys = MaxVisitKeys]
    /\ vpc' = "loop"
    /\ UNCHANGED <<vkey, vids, vci, cacheItems, savedIndex, savedExit,
                   scrapeResult, fetchedProfile, existsReported,
                   profileRequested, repositoryCalled, keysFetched,
                   checkpointFailed>>
    /\ UNCHANGED listFailed
    /\ UNCHANGED notVisit

\* listFetcher.fetchAllCharacterIds(keys[i]): the ids it accumulated, whether its
\* loop ended at the last page or the level threshold or at a failed page
VisitFetchList ==
    /\ vpc = "loop"
    /\ vkey < MaxVisitKeys
    /\ \E n \in 0..MaxVisitChars : vids' = VisitIds(vkey, n)
    /\ listFailed' \in BOOLEAN
    /\ vci' = 0
    /\ keysFetched' = keysFetched + 1
    /\ vpc' = "chars"
    /\ UNCHANGED <<vlimit, vkey, vstats, glamourRows, cacheItems, savedIndex,
                   savedExit, scrapeResult, fetchedProfile, existsReported,
                   profileRequested, repositoryCalled, checkpointFailed>>
    /\ UNCHANGED notVisit

SkipWithoutContinue ==
    /\ vpc = "chars"
    /\ vci < Len(vids)
    /\ CharacterExists(vids[vci + 1], glamourRows, FALSE)
    /\ existsReported' = TRUE
    /\ vstats' = [vstats EXCEPT !.skippedCharacters = @ + 1]
    /\ profileRequested' = TRUE
    /\ repositoryCalled' = FALSE
    /\ vci' = vci + 1
    /\ UNCHANGED <<vpc, vlimit, vkey, vids, glamourRows, cacheItems, savedIndex,
                   savedExit, scrapeResult, fetchedProfile, keysFetched,
                   checkpointFailed>>
    /\ UNCHANGED listFailed
    /\ UNCHANGED notVisit

\* characterExists answers true: skippedCharacters++, continue
SkipExistingCharacter ==
    /\ vpc = "chars"
    /\ vci < Len(vids)
    /\ CharacterExists(vids[vci + 1], glamourRows, FALSE)
    /\ existsReported' = TRUE
    /\ vstats' = [vstats EXCEPT !.skippedCharacters = @ + 1]
    /\ profileRequested' = FALSE
    /\ repositoryCalled' = FALSE
    /\ vci' = vci + 1
    /\ UNCHANGED <<vpc, vlimit, vkey, vids, glamourRows, cacheItems, savedIndex,
                   savedExit, scrapeResult, fetchedProfile, keysFetched,
                   checkpointFailed>>
    /\ UNCHANGED listFailed
    /\ UNCHANGED notVisit

\* characterExists answers false: scraper.scrape and the counting of its result
ScrapeCharacter ==
    /\ vpc = "chars"
    /\ vci < Len(vids)
    /\ \E queryFails \in BOOLEAN, profile \in Profiles, db \in DbOutcomes :
          LET c == vids[vci + 1]
              s == Scrape(c, profile, db, glamourRows, cacheItems)
          IN  /\ ~CharacterExists(c, glamourRows, queryFails)
              /\ existsReported' = FALSE
              /\ fetchedProfile' = profile
              /\ scrapeResult' = s.result
              /\ glamourRows' = s.rows
              /\ cacheItems' = s.cache
              /\ profileRequested' = TRUE
              /\ repositoryCalled' = s.repository
              /\ vstats' = CountResult(vstats, s.result)
              /\ \/ s.result.success /\ s.result.savedCount > 0
                 \/ vstats.skippedCharacters + vstats.errors < MaxFailedScrapes
    /\ vci' = vci + 1
    /\ UNCHANGED <<vpc, vlimit, vkey, vids, savedIndex, savedExit, keysFetched,
                   checkpointFailed>>
    /\ UNCHANGED listFailed
    /\ UNCHANGED notVisit

CheckpointFailureSwallowed ==
    /\ vpc = "chars"
    /\ vci = Len(vids)
    /\ vstats' = [vstats EXCEPT !.processedKeys = @ + 1]
    /\ checkpointFailed' = TRUE
    /\ vpc' = "loop"
    /\ vkey' = vkey + 1
    /\ UNCHANGED <<vlimit, vids, vci, glamourRows, cacheItems, savedIndex,
                   savedExit, scrapeResult, fetchedProfile, existsReported,
                   profileRequested, repositoryCalled, keysFetched>>
    /\ UNCHANGED listFailed
    /\ UNCHANGED notVisit

\* the key is complete, processedKeys++, and saveProgress throws: start()
\* is rejected
KeyCheckpointFails ==
    /\ vpc = "chars"
    /\ vci = Len(vids)
    /\ vstats' = [vstats EXCEPT !.processedKeys = @ + 1]
    /\ checkpointFailed' = TRUE
    /\ vpc' = "failed"
    /\ UNCHANGED <<vlimit, vkey, vids, vci, glamourRows, cacheItems, savedIndex,
                   savedExit, scrapeResult, fetchedProfile, existsReported,
                   profileRequested, repositoryCalled, keysFetched>>
    /\ UNCHANGED listFailed
    /\ UNCHANGED notVisit

\* the key is complete: processedKeys++, the per-key checkpoint, the limit test
KeyCheckpointed ==
    /\ vpc = "chars"
    /\ vci = Len(vids)
    /\ savedIndex' = vkey
    /\ savedExit' = NoExit
    /\ LET st == [vstats EXCEPT !.processedKeys = @ + 1]
       IN  IF LimitReached(st, vlimit)
           THEN /\ vstats' = [st EXCEPT !.exitReason = "LIMIT_REACHED"]
                /\ vpc' = "final"
                /\ vkey' = vkey
           ELSE /\ vstats' = st
                /\ vpc' = IF vkey + 1 < MaxVisitKeys THEN "loop" ELSE "final"
                /\ vkey' = vkey + 1
    /\ UNCHANGED <<vlimit, vids, vci, glamourRows, cacheItems, scrapeResult,
                   fetchedProfile, existsReported, profileRequested,
                   repositoryCalled, keysFetched, checkpointFailed>>
    /\ UNCHANGED listFailed
    /\ UNCHANGED notVisit

\* the final saveProgress; start() returns stats
FinalCheckpointed ==
    /\ vpc = "final"
    /\ savedIndex' = IF vstats.processedKeys > 0 THEN vstats.processedKeys - 1
                     ELSE -1
    /\ savedExit' = vstats.exitReason
    /\ vpc' = "done"
    /\ UNCHANGED <<vlimit, vkey, vids, vci, vstats, glamourRows, cacheItems,
                   scrapeResult, fetchedProfile, existsReported,
                   profileRequested, repositoryCalled, keysFetched,
                   checkpointFailed>>
    /\ UNCHANGED listFailed
    /\ UNCHANGED notVisit

\* the final saveProgress throws: start() is rejected
FinalCheckpointFails ==
    /\ vpc = "final"
    /\ checkpointFailed' = TRUE
    /\ vpc' = "failed"
    /\ UNCHANGED <<vlimit, vkey, vids, vci, vstats, glamourRows, cacheItems,
                   savedIndex, savedExit, scrapeResult, fetchedProfile,
                   existsReported, profileRequested, repositoryCalled,
                   keysFetched>>
    /\ UNCHANGED listFailed
    /\ UNCHANGED notVisit

VisitNext ==
    \/ VisitStart
    \/ VisitFetchList
    \/ SkipExistingCharacter
    \/ ScrapeCharacter
    \/ KeyCheckpointed
    \/ KeyCheckpointFails
    \/ FinalCheckpointed
    \/ FinalCheckpointFails

\* ---------------------------------------------------------------------------
\* postItems of the publish client: chunking, retry with backoff, fatal answers
\* ---------------------------------------------------------------------------

\* writer-client: DEFAULT_ITEMS_CHUNK_SIZE
DEFAULT_ITEMS_CHUNK_SIZE == 1000

\* writer-client: DEFAULT_RETRY_DELAY_MS
DEFAULT_RETRY_DELAY_MS == 1000

\* the statuses the API answers with; NetworkFailure stands for fetch throwing
NetworkFailure == 0

ServerErrors == {500, 503}

ResponseStatuses == {200, 400, 401, 403, NetworkFailure} \cup ServerErrors

NoError == <<"none", 0>>

\* the arrays and chunk sizes postItems is called with
PostInputs ==
    {<<n, s>> : n \in 0..MaxRecords, s \in 1..MaxChunkSize}
        \cup {<<1200, DEFAULT_ITEMS_CHUNK_SIZE>>}

\* Array.prototype.slice(start, end) with every record from start on
sliceToEnd(array, start, end) == SubSeq(array, start + 1, Len(array))

\* Array.prototype.slice(start, end): the end is clamped to the length
slice(array, start, end) ==
    SubSeq(array, start + 1, IF end < Len(array) THEN end ELSE Len(array))

\* chunk(array, size): for (from = 0; from < array.length; from += size) push slice(from, from + size)
RECURSIVE chunkFrom(_, _, _)
chunkFrom(array, size, from) ==
    IF from < Len(array)
    THEN <<slice(array, from, from + size)>> \o chunkFrom(array, size, from + size)
    ELSE <<>>

chunkArray(array, size) == chunkFrom(array, size, 0)

\* a backoff that does not grow
FlatDelay(nth) == DEFAULT_RETRY_DELAY_MS

\* DEFAULT_RETRY_DELAY_MS * 2 ** i
Delay(nth) == DEFAULT_RETRY_DELAY_MS * 2 ^ nth

\* a catch block that rethrows nothing
RethrownNever(error) == FALSE

\* the catch block of fetchWithRetry rethrows the two authentication errors
RethrownAtOnce(error) == error[1] \in {"Unauthorized", "Forbidden"}

\* what the try block of fetchWithRetry throws on a response, NoError if it returns it
ThrownOn(status) ==
    CASE status = NetworkFailure -> <<"fetch failed", NetworkFailure>>
      [] status = 401 -> <<"Unauthorized", 401>>
      [] status = 403 -> <<"Forbidden", 403>>
      [] status >= 500 -> <<"Server error", status>>
      [] OTHER -> NoError

\* the bodies a 200 answers a chunk with
Answers(batch) ==
    {[inserted |-> a, skipped |-> Len(batch) - a] :
        a \in {Len(batch)} \cup (IF Len(batch) > 0 THEN {Len(batch) - 1} ELSE {})}

PostInit ==
    /\ wpc = "idle"
    /\ postedItems = <<>>
    /\ itemsChunkSize = DEFAULT_ITEMS_CHUNK_SIZE
    /\ retryCount = DEFAULT_RETRY_COUNT
    /\ itemChunks = <<>>
    /\ chunkIndex = 1
    /\ fetchIndex = 0
    /\ totalInserted = 0
    /\ totalSkipped = 0
    /\ lastError = NoError
    /\ thrownError = NoError
    /\ requestLog = <<>>
    /\ requestsSent = 0
    /\ sleptMs = <<>>
    /\ chunkCounts = <<>>

\* postItems(items) of a client with chunkSizes.items and retryCount: chunks = chunk(...)
postItems ==
    /\ wpc = "idle"
    /\ \E input \in PostInputs, r \in 0..MaxRetryCount :
        /\ postedItems' = [k \in 1..input[1] |-> k]
        /\ itemsChunkSize' = input[2]
        /\ retryCount' = r
        /\ itemChunks' = chunkArray([k \in 1..input[1] |-> k], input[2])
    /\ wpc' = "posting"
    /\ UNCHANGED <<chunkIndex, fetchIndex, totalInserted, totalSkipped, lastError,
                   thrownError, requestLog, requestsSent, sleptMs, chunkCounts>>
    /\ UNCHANGED notPost

\* the loop of fetchWithRetry is at an iteration for a chunk of the loop of postItems
Fetching ==
    /\ wpc = "posting"
    /\ chunkIndex <= Len(itemChunks)
    /\ fetchIndex < retryCount

\* the response is ok: its counts are added and the loop goes to the next chunk
ChunkAccepted ==
    /\ Fetching
    /\ \E answer \in Answers(itemChunks[chunkIndex]) :
        /\ totalInserted' = totalInserted + answer.inserted
        /\ totalSkipped' = totalSkipped + answer.skipped
        /\ chunkCounts' = Append(chunkCounts,
               [inserted |-> answer.inserted, skipped |-> answer.skipped,
                requests |-> fetchIndex + 1])
    /\ requestLog' = <<>>
    /\ requestsSent' = requestsSent + 1
    /\ chunkIndex' = chunkIndex + 1
    /\ fetchIndex' = 0
    /\ lastError' = NoError
    /\ sleptMs' = <<>>
    /\ UNCHANGED <<wpc, postedItems, itemsChunkSize, retryCount, itemChunks, thrownError>>
    /\ UNCHANGED notPost

\* a response fetchWithRetry returns that is not ok: postItems throws 'Failed to post items'
ChunkRefused ==
    /\ Fetching
    /\ \E status \in ResponseStatuses \ {200} :
        /\ ThrownOn(status) = NoError
        /\ requestLog' = Append(requestLog, <<chunkIndex, status>>)
        /\ requestsSent' = requestsSent + 1
        /\ thrownError' = <<"Failed to post items", status>>
    /\ wpc' = "thrown"
    /\ UNCHANGED <<postedItems, itemsChunkSize, retryCount, itemChunks, chunkIndex,
                   fetchIndex, totalInserted, totalSkipped, lastError, sleptMs,
                   chunkCounts>>
    /\ UNCHANGED notPost

\* the try block throws and the catch block rethrows at once
FetchRethrows ==
    /\ Fetching
    /\ \E status \in ResponseStatuses :
        /\ ThrownOn(status) # NoError
        /\ RethrownAtOnce(ThrownOn(status))
        /\ requestLog' = Append(requestLog, <<chunkIndex, status>>)
        /\ requestsSent' = requestsSent + 1
        /\ lastError' = ThrownOn(status)
        /\ thrownError' = ThrownOn(status)
    /\ wpc' = "thrown"
    /\ UNCHANGED <<postedItems, itemsChunkSize, retryCount, itemChunks, chunkIndex,
                   fetchIndex, totalInserted, totalSkipped, sleptMs, chunkCounts>>
    /\ UNCHANGED notPost

\* the try block throws, the catch block sleeps Delay(i) and the loop goes on
FetchRetries ==
    /\ Fetching
    /\ fetchIndex < retryCount - 1
    /\ \E status \in ResponseStatuses :
        /\ ThrownOn(status) # NoError
        /\ ~RethrownAtOnce(ThrownOn(status))
        /\ requestLog' = Append(requestLog, <<chunkIndex, status>>)
        /\ requestsSent' = requestsSent + 1
        /\ lastError' = ThrownOn(status)
    /\ sleptMs' = Append(sleptMs, Delay(fetchIndex))
    /\ fetchIndex' = fetchIndex + 1
    /\ UNCHANGED <<wpc, postedItems, itemsChunkSize, retryCount, itemChunks, chunkIndex,
                   totalInserted, totalSkipped, thrownError, chunkCounts>>
    /\ UNCHANGED notPost

\* the try block throws at the last iteration: no sleep, the loop ends, lastError is thrown
FetchExhausted ==
    /\ Fetching
    /\ ~(fetchIndex < retryCount - 1)
    /\ \E status \in ResponseStatuses :
        /\ ThrownOn(status) # NoError
        /\ ~RethrownAtOnce(ThrownOn(status))
        /\ requestLog' = Append(requestLog, <<chunkIndex, status>>)
        /\ requestsSent' = requestsSent + 1
        /\ lastError' = ThrownOn(status)
        /\ thrownError' = ThrownOn(status)
    /\ fetchIndex' = fetchIndex + 1
    /\ wpc' = "thrown"
    /\ UNCHANGED <<postedItems, itemsChunkSize, retryCount, itemChunks, chunkIndex,
                   totalInserted, totalSkipped, sleptMs, chunkCounts>>
    /\ UNCHANGED notPost

\* attempts is 0: the loop of fetchWithRetry has no iteration, 'Request failed' is thrown
FetchWithoutAttempt ==
    /\ wpc = "posting"
    /\ chunkIndex <= Len(itemChunks)
    /\ fetchIndex = 0
    /\ retryCount = 0
    /\ thrownError' = <<"Request failed", 0>>
    /\ wpc' = "thrown"
    /\ UNCHANGED <<postedItems, itemsChunkSize, retryCount, itemChunks, chunkIndex,
                   fetchIndex, totalInserted, totalSkipped, lastError, requestLog,
                   requestsSent, sleptMs, chunkCounts>>
    /\ UNCHANGED notPost

\* the loop of postItems is over: the totals are returned
PostReturns ==
    /\ wpc = "posting"
    /\ chunkIndex > Len(itemChunks)
    /\ wpc' = "returned"
    /\ UNCHANGED <<postedItems, itemsChunkSize, retryCount, itemChunks, chunkIndex,
                   fetchIndex, totalInserted, totalSkipped, lastError, thrownError,
                   requestLog, requestsSent, sleptMs, chunkCounts>>
    /\ UNCHANGED notPost

PostNext ==
    \/ postItems
    \/ ChunkAccepted
    \/ ChunkRefused
    \/ FetchRethrows
    \/ FetchRetries
    \/ FetchExhausted
    \/ FetchWithoutAttempt
    \/ PostReturns

(***************************************************************************)
(* The loop of start() over the characters of one key whose checkpoint was *)
(* not written: the process is terminated and a new one handles the key    *)
(* again from its first character.                                         *)
(***************************************************************************)
\* the ids fetchAllCharacterIds returns for the key
RevisitIds == [j \in 1..MaxRevisitChars |-> j]

RevisitInit ==
    /\ xpc = "idle"
    /\ xci = 0
    /\ xrows = {}
    /\ xcache = {}
    /\ xstarts = 0
    /\ profileFetches = [c \in {} |-> 0]

\* profiles fetched so far for a character by scrapes that succeeded
FetchesOf(c) == IF c \in DOMAIN profileFetches THEN profileFetches[c] ELSE 0

\* start() resumes at the key (its checkpoint is missing) and fetches its list
RevisitStart ==
    /\ xpc \in {"idle", "crashed"}
    /\ xstarts < MaxRevisits
    /\ xstarts' = xstarts + 1
    /\ xci' = 0
    /\ xpc' = "chars"
    /\ UNCHANGED <<xrows, xcache, profileFetches>>
    /\ UNCHANGED notRevisit

\* characterExists answers true: continue
RevisitSkip ==
    /\ xpc = "chars"
    /\ xci < Len(RevisitIds)
    /\ CharacterExists(RevisitIds[xci + 1], xrows, FALSE)
    /\ xci' = xci + 1
    /\ UNCHANGED <<xpc, xrows, xcache, xstarts, profileFetches>>
    /\ UNCHANGED notRevisit

\* characterExists answers false: scraper.scrape requests the profile
RevisitScrape ==
    /\ xpc = "chars"
    /\ xci < Len(RevisitIds)
    /\ \E queryFails \in BOOLEAN, profile \in Profiles, db \in DbOutcomes :
          LET c == RevisitIds[xci + 1]
              s == Scrape(c, profile, db, xrows, xcache)
          IN  /\ ~CharacterExists(c, xrows, queryFails)
              /\ xrows' = s.rows
              /\ xcache' = s.cache
              /\ profileFetches' =
                     IF s.result.success
                     THEN [d \in DOMAIN profileFetches \cup {c} |->
                              IF d = c THEN FetchesOf(c) + 1 ELSE FetchesOf(d)]
                     ELSE profileFetches
    /\ xci' = xci + 1
    /\ UNCHANGED <<xpc, xstarts>>
    /\ UNCHANGED notRevisit

\* the process is terminated before the key's checkpoint
RevisitCrash ==
    /\ xpc = "chars"
    /\ xpc' = "crashed"
    /\ xci' = 0
    /\ UNCHANGED <<xrows, xcache, xstarts, profileFetches>>
    /\ UNCHANGED notRevisit

\* every character was handled: the per-key checkpoint is written
RevisitKeyDone ==
    /\ xpc = "chars"
    /\ xci = Len(RevisitIds)
    /\ xpc' = "keydone"
    /\ UNCHANGED <<xci, xrows, xcache, xstarts, profileFetches>>
    /\ UNCHANGED notRevisit

RevisitNext ==
    \/ RevisitStart
    \/ RevisitSkip
    \/ RevisitScrape
    \/ RevisitCrash
    \/ RevisitKeyDone

(***************************************************************************)
(* Two sync runs against one writer: every awaited statement of the commit *)
(* handler is a step, and the steps of the two requests interleave.  Each  *)
(* run uploads one usage chunk and one pairs chunk.                        *)
(***************************************************************************)
Runners == {1, 2}

SharedInit ==
    /\ sharedD1 = [meta |-> NoRow, syncVersions |-> <<>>, usage |-> {}, pairs |-> {}]
    /\ runnerPc = [p \in Runners |-> "idle"]
    /\ runnerVersion = [p \in Runners |-> NoVersion]
    /\ runnerKeep = [p \in Runners |-> {}]
    /\ sharedMinted = 0

\* POST /api/sync/start: startSync answers with a fresh version
SharedStartSync ==
    \E p \in Runners :
        /\ runnerPc[p] = "idle"
        /\ sharedMinted < MaxSharedSyncs
        /\ sharedMinted' = sharedMinted + 1
        /\ runnerVersion' = [runnerVersion EXCEPT ![p] = sharedMinted + 1]
        /\ runnerPc' = [runnerPc EXCEPT ![p] = "usage"]
        /\ UNCHANGED <<sharedD1, runnerKeep>>
        /\ UNCHANGED notShared

\* POST /api/usage: the chunk of the run is inserted under its version
SharedPostUsage ==
    \E p \in Runners :
        /\ runnerPc[p] = "usage"
        /\ sharedD1' = InsertUsage(sharedD1, runnerVersion[p], 1)
        /\ runnerPc' = [runnerPc EXCEPT ![p] = "pairs"]
        /\ UNCHANGED <<runnerVersion, runnerKeep, sharedMinted>>
        /\ UNCHANGED notShared

\* POST /api/pairs: the chunk of the run is inserted under its version
SharedPostPairs ==
    \E p \in Runners :
        /\ runnerPc[p] = "pairs"
        /\ sharedD1' = InsertPairs(sharedD1, runnerVersion[p], 1)
        /\ runnerPc' = [runnerPc EXCEPT ![p] = "commit"]
        /\ UNCHANGED <<runnerVersion, runnerKeep, sharedMinted>>
        /\ UNCHANGED notShared

\* POST /api/sync/commit, commitSync: active_version is upserted
SharedCommitMeta ==
    \E p \in Runners :
        /\ runnerPc[p] = "commit"
        /\ sharedD1' = UpsertActiveVersion(sharedD1, runnerVersion[p])
        /\ runnerPc' = [runnerPc EXCEPT ![p] = "commit_versions"]
        /\ UNCHANGED <<runnerVersion, runnerKeep, sharedMinted>>
        /\ UNCHANGED notShared

\* commitSync: the sync_versions row is inserted
SharedCommitVersions ==
    \E p \in Runners :
        /\ runnerPc[p] = "commit_versions"
        /\ sharedD1' = InsertSyncVersion(sharedD1, runnerVersion[p])
        /\ runnerPc' = [runnerPc EXCEPT ![p] = "cleanup_select"]
        /\ UNCHANGED <<runnerVersion, runnerKeep, sharedMinted>>
        /\ UNCHANGED notShared

\* cleanupOldVersions: at most VERSIONS_TO_KEEP rows, nothing to delete; the
\* handler answers and the run ends
SharedCleanupNothing ==
    \E p \in Runners :
        /\ runnerPc[p] = "cleanup_select"
        /\ Len(sharedD1.syncVersions) <= VERSIONS_TO_KEEP
        /\ runnerPc' = [runnerPc EXCEPT ![p] = "idle"]
        /\ UNCHANGED <<sharedD1, runnerVersion, runnerKeep, sharedMinted>>
        /\ UNCHANGED notShared

\* cleanupOldVersions: the newest VERSIONS_TO_KEEP versions are selected
SharedCleanupSelect ==
    \E p \in Runners :
        /\ runnerPc[p] = "cleanup_select"
        /\ Len(sharedD1.syncVersions) > VERSIONS_TO_KEEP
        /\ runnerKeep' = [runnerKeep EXCEPT ![p] = VersionsToKeep(sharedD1)]
        /\ runnerPc' = [runnerPc EXCEPT ![p] = "cleanup_usage"]
        /\ UNCHANGED <<sharedD1, runnerVersion, sharedMinted>>
        /\ UNCHANGED notShared

\* cleanupOldVersions: delete from usage where version not in versionsToKeep
SharedCleanupDeleteUsage ==
    \E p \in Runners :
        /\ runnerPc[p] = "cleanup_usage"
        /\ sharedD1' = CleanupUsage(sharedD1, runnerKeep[p])
        /\ runnerPc' = [runnerPc EXCEPT ![p] = "cleanup_pairs"]
        /\ UNCHANGED <<runnerVersion, runnerKeep, sharedMinted>>
        /\ UNCHANGED notShared

\* cleanupOldVersions: delete from pairs where version not in versionsToKeep
SharedCleanupDeletePairs ==
    \E p \in Runners :
        /\ runnerPc[p] = "cleanup_pairs"
        /\ sharedD1' = CleanupPairs(sharedD1, runnerKeep[p])
        /\ runnerPc' = [runnerPc EXCEPT ![p] = "cleanup_versions"]
        /\ UNCHANGED <<runnerVersion, runnerKeep, sharedMinted>>
        /\ UNCHANGED notShared

\* cleanupOldVersions: delete from sync_versions where version not in
\* versionsToKeep; the handler answers and the run ends
SharedCleanupDeleteVersions ==
    \E p \in Runners :
        /\ runnerPc[p] = "cleanup_versions"
        /\ sharedD1' = CleanupSyncVersions(sharedD1, runnerKeep[p])
        /\ runnerPc' = [runnerPc EXCEPT ![p] = "idle"]
        /\ UNCHANGED <<runnerVersion, runnerKeep, sharedMinted>>
        /\ UNCHANGED notShared

SharedNext ==
    \/ SharedStartSync
    \/ SharedPostUsage
    \/ SharedPostPairs
    \/ SharedCommitMeta
    \/ SharedCommitVersions
    \/ SharedCleanupNothing
    \/ SharedCleanupSelect
    \/ SharedCleanupDeleteUsage
    \/ SharedCleanupDeletePairs
    \/ SharedCleanupDeleteVersions

GateInit ==
    /\ options = StatsOnly
    /\ crawlComplete = "unasked"

QueryInit ==
    /\ qpc = "idle"
    /\ qv = NoVersion
    /\ qrows = {}
    /\ qsupplied = NoVersion
    /\ qactive = NoVersion

\* const v = version ?? (await getActiveVersion(db))
QueryResolve ==
    /\ qpc = "idle"
    /\ \E supplied \in {NoVersion} \cup (DEFAULT_VERSION..minted) :
          /\ qv' = IF supplied = NoVersion THEN GetActiveVersion(d1) ELSE supplied
          /\ qsupplied' = supplied
    /\ qpc' = "resolved"
    /\ UNCHANGED <<qrows, qactive>>
    /\ UNCHANGED notQuery

\* db.prepare(query).bind(v, ...).all()
QueryExecute ==
    /\ qpc = "resolved"
    /\ qrows' = QueryRows(d1, qv)
    /\ qactive' = GetActiveVersion(d1)
    /\ qpc' = "returned"
    /\ UNCHANGED <<qv, qsupplied>>
    /\ UNCHANGED notQuery

\* the query function returns its rows
QueryReturn ==
    /\ qpc = "returned"
    /\ qpc' = "idle"
    /\ qv' = NoVersion
    /\ qrows' = {}
    /\ qsupplied' = NoVersion
    /\ qactive' = NoVersion
    /\ UNCHANGED notQuery

\* the queries run next to sync runs whose requests are answered or rejected
QueryNext ==
    \/ RunSync
    \/ StartSyncOk
    \/ PostUsageOk
    \/ PostPairsOk
    \/ GetDataDateRange
    \/ AttemptRejected
    \/ CommitBegin
    \/ CommitMeta
    \/ CommitVersions
    \/ CleanupNothing
    \/ CleanupSelect
    \/ CleanupDeleteUsage
    \/ CleanupDeletePairs
    \/ CleanupDeleteVersions
    \/ AbortBegin
    \/ AbortDeleteUsage
    \/ AbortDeletePairs
    \/ Finish
    \/ QueryResolve
    \/ QueryExecute
    \/ QueryReturn

\* runSync with every option and gate answer, its requests answered or rejected
GateNext ==
    \/ RunSync
    \/ RunSyncGated
    \/ RunSyncDryRun
    \/ PostItems
    \/ StartSyncOk
    \/ PostUsageOk
    \/ PostPairsOk
    \/ GetDataDateRange
    \/ AttemptRejected
    \/ CommitBegin
    \/ CommitMeta
    \/ CommitVersions
    \/ CleanupNothing
    \/ CleanupSelect
    \/ CleanupDeleteUsage
    \/ CleanupDeletePairs
    \/ CleanupDeleteVersions
    \/ AbortBegin
    \/ AbortDeleteUsage
    \/ AbortDeletePairs
    \/ Finish

Init ==
    /\ CrawlInit /\ SyncInit /\ GateInit /\ QueryInit
    /\ ProgressInit /\ AggregatorInit /\ RetryInit
    /\ HttpInit
    /\ FetcherInit
    /\ VisitInit
    /\ PostInit
    /\ RevisitInit
    /\ SharedInit

Next ==
    \/ StartDryRun
    \/ StartRun
    \/ FetchList
    \/ SkipExisting
    \/ ScrapeSaved
    \/ ScrapeEmpty
    \/ ScrapeError
    \/ KeyDone
    \/ LoopExhausted
    \/ FinalSave
    \/ Crash

Spec == Init /\ [][Next]_vars

SyncSpec == Init /\ [][SyncNext]_vars

QuerySpec == Init /\ [][QueryNext]_vars

GateSpec == Init /\ [][GateNext]_vars

ProgressSpec == Init /\ [][ProgressNext]_vars

AggregatorSpec == Init /\ [][AggregatorNext]_vars

RetrySpec == Init /\ [][RetryNext]_vars

HttpSpec == Init /\ [][HttpNext]_vars

FetcherSpec == Init /\ [][FetcherNext]_vars

VisitSpec == Init /\ [][VisitNext]_vars

PostSpec == Init /\ [][PostNext]_vars

RevisitSpec == Init /\ [][RevisitNext]_vars

SharedSpec == Init /\ [][SharedNext]_vars

\* the crawler re-run without end, each run resuming from the persisted
\* progress; every step that is enabled is eventually taken
RerunNext ==
    \/ StartRun
    \/ StartAgain
    \/ FetchList
    \/ SkipExisting
    \/ ScrapeSaved
    \/ ScrapeEmpty
    \/ ScrapeError
    \/ KeyDone
    \/ LoopExhausted
    \/ FinalSave
    \/ Interrupted

RerunSpec ==
    /\ Init
    /\ [][RerunNext]_vars
    /\ WF_vars(StartRun \/ StartAgain)
    /\ WF_vars(FetchList)
    /\ WF_vars(SkipExisting \/ ScrapeSaved \/ ScrapeEmpty \/ ScrapeError)
    /\ WF_vars(KeyDone)
    /\ WF_vars(LoopExhausted)
    /\ WF_vars(FinalSave)

(***************************************************************************)
(* Crawl orchestrator: properties.                                         *)
(***************************************************************************)
InRun == pc \in {"loop", "chars", "final"}

\* processedCharacters carried over from the loaded progress
Carried ==
    IF existingProgress = NoProgress THEN 0
    ELSE existingProgress.processedCharacters

\* C1: a non-dry run resumed from lastCompletedShuffledIndex = k fetches the
\* character lists of the shuffled positions k+1, k+2, ... in that order and
\* of no other position, and when it ends without reaching the limit it has
\* fetched every position up to NumKeys-1.
C1_ResumeExactness ==
    (pc # "idle" /\ ~dryRun /\ existingProgress # NoProgress) =>
        LET k == existingProgress.lastCompletedShuffledIndex
        IN  /\ \A j \in 1..Len(fetched) : fetched[j].pos = k + j
            /\ (pc = "done" /\ stats.exitReason = "COMPLETED")
                   => Len(fetched) = NumKeys - 1 - k

C1_Witness ==
    /\ pc = "done" /\ ~dryRun
    /\ existingProgress # NoProgress
    /\ existingProgress.lastCompletedShuffledIndex = 0
    /\ stats.exitReason = "COMPLETED"
    /\ Len(fetched) = NumKeys - 1
    /\ Len(fetched) >= 2

\* C2: every progress write of a run (per-key and final checkpoint) carries a
\* lastCompletedShuffledIndex that is not lower than the value persisted
\* before that write.
C2_IndexOnlyIncreases ==
    \A j \in 1..Len(writes) : writes[j].index >= writes[j].before

\* C3: no key is silently skipped: every position up to the persisted
\* lastCompletedShuffledIndex has had its list fetched and all its characters
\* handled; while a key is in progress, which is when a termination leaves
\* it unfinished, the persisted progress resumes at that key; and a resumed
\* run fetches the key after the persisted index first and handles the
\* fetched list from its first character.
C3_NoKeySkipped ==
    /\ \A p \in 0..PersistedIndex(progress) : p \in handledKeys
    /\ pc = "chars" => PersistedIndex(progress) + 1 = i
    /\ (pc # "idle" /\ ~dryRun /\ Len(fetched) >= 1)
           => fetched[1].pos = PersistedIndex(existingProgress) + 1
    /\ (pc = "chars" /\ Len(fetched) >= 1)
           => /\ fetched[Len(fetched)].pos = i
              /\ ci <= Len(characterIds)
              /\ \A c \in 1..ci : characterIds[c] = KeyCharacters(i)[c]

\* a run resumed from the progress an interrupted run left (no exitReason)
\* has handled every character of the key after the persisted index
C3_Witness ==
    /\ pc = "chars"
    /\ existingProgress # NoProgress
    /\ existingProgress.exitReason = NoExit
    /\ i = existingProgress.lastCompletedShuffledIndex + 1
    /\ Len(characterIds) > 1
    /\ ci = Len(characterIds)
    /\ stats.skippedCharacters > 0

\* C4 (as claimed): from the moment the cumulative processed-character count
\* reaches the limit, no further character is scraped and no further key's
\* character list is fetched.
C4_StopsImmediately ==
    [][(InRun /\ Carried < limit /\ stats.processedCharacters >= limit)
           => (scraped' <= scraped /\ Len(fetched') <= Len(fetched))]_vars

\* C4 (amended): the limit is tested when a key completes: a run never goes on
\* to another key with the count at or above the limit after a completed key,
\* and once exitReason = LIMIT_REACHED no character is scraped and no
\* character list is fetched.
C4_StopsAfterKey ==
    /\ [](  (pc = "loop" /\ stats.processedKeys > 0)
                => stats.processedCharacters < limit)
    /\ [][(InRun /\ stats.exitReason = "LIMIT_REACHED")
              => (scraped' <= scraped /\ Len(fetched') <= Len(fetched))]_vars

C4_Witness ==
    /\ pc = "done"
    /\ stats.exitReason = "LIMIT_REACHED"
    /\ i + 1 < NumKeys
    /\ Carried < limit
    /\ stats.processedCharacters > limit

\* the scenario of C5: limit 4, two keys remain at the start of the run, every
\* fetched key yields 2 characters and every one of them is scraped and saved
C5_Scenario ==
    /\ pc = "done" /\ ~dryRun
    /\ limit = 4
    /\ NumKeys - ResumeIndex(existingProgress) = 2
    /\ \A j \in 1..Len(fetched) : fetched[j].n = 2
    /\ stats.skippedCharacters = 0
    /\ stats.errors = 0

\* C5 (as claimed): in the scenario the run ends after the first key with
\* processedCharacters = 4, LIMIT_REACHED and processedKeys = 1.
C5_EndsAfterFirstKey ==
    C5_Scenario =>
        /\ stats.processedCharacters = 4
        /\ stats.exitReason = "LIMIT_REACHED"
        /\ stats.processedKeys = 1

\* C5 (amended): in the scenario a run that carries no count over processes
\* both keys and ends with processedCharacters = 4, LIMIT_REACHED and
\* processedKeys = 2; it ends after the first key with processedCharacters = 4
\* exactly when the loaded progress carried processedCharacters = 2.
C5_EndsAtLimit ==
    C5_Scenario =>
        /\ stats.processedCharacters = Carried + 2 * stats.processedKeys
        /\ Carried = 0 => /\ stats.processedCharacters = 4
                          /\ stats.exitReason = "LIMIT_REACHED"
                          /\ stats.processedKeys = 2
        /\ Carried = 2 => /\ stats.processedCharacters = 4
                          /\ stats.exitReason = "LIMIT_REACHED"
                          /\ stats.processedKeys = 1
        /\ (stats.processedKeys = 1 /\ stats.processedCharacters = 4)
               => Carried = 2

C5_Witness ==
    /\ C5_Scenario
    /\ Carried = 0
    /\ stats.processedKeys = 2
    /\ stats.exitReason = "LIMIT_REACHED"

\* C6: when start() of a non-dry run has returned, the last progress write is
\* the final checkpoint and carries the returned exitReason (COMPLETED or
\* LIMIT_REACHED), which is what the store now holds; every write before it
\* carries no exitReason.
C6_FinalCheckpointCarriesExit ==
    (pc = "done" /\ ~dryRun) =>
        /\ Len(writes) >= 1
        /\ stats.exitReason \in {"COMPLETED", "LIMIT_REACHED"}
        /\ writes[Len(writes)].exitReason = stats.exitReason
        /\ progress # NoProgress
        /\ progress.exitReason = stats.exitReason
        /\ \A j \in 1..(Len(writes) - 1) : writes[j].exitReason = NoExit

C6_Witness ==
    /\ pc = "done" /\ ~dryRun
    /\ Len(writes) >= 3
    /\ existingProgress # NoProgress
    /\ existingProgress.exitReason # NoExit
    /\ stats.exitReason = "LIMIT_REACHED"

(***************************************************************************)
(* Publish protocol: properties.                                           *)
(***************************************************************************)
AbortSteps == {"abort_usage", "abort_pairs"}

\* the usage rows and the pair rows tagged v
RowsOf(db, v) == <<{r \in db.usage : r[1] = v}, {r \in db.pairs : r[1] = v}>>

\* the abort request of this run has been answered with 200
AbortCompleted ==
    /\ rpc \in {"finish", "done"}
    /\ abortInvoked # NoVersion
    /\ "Abort failed" \notin errors

\* C7: no statement of abortSync changes what getActiveVersion returns; the
\* active version changes only in commitSync's upsert, and then to the
\* version commitSync was given.
C7_OnlyCommitMovesPointer ==
    [][/\ (spc \in AbortSteps) => GetActiveVersion(d1') = GetActiveVersion(d1)
       /\ GetActiveVersion(d1') # GetActiveVersion(d1)
              => (spc = "commit_meta" /\ GetActiveVersion(d1') = version)]_vars

C7_Witness ==
    /\ AbortCompleted
    /\ GetActiveVersion(d1) # DEFAULT_VERSION
    /\ GetActiveVersion(d1) = abortInvoked

\* C8: the active pointer and the metadata rows change as one step: whenever
\* the pointer names a version its metadata row exists, and the newest
\* metadata row is the one of the version the pointer names.
C8_CommitAtomic ==
    /\ GetActiveVersion(d1) # DEFAULT_VERSION
           => GetActiveVersion(d1) \in Range(d1.syncVersions)
    /\ d1.syncVersions # <<>>
           => d1.syncVersions[Len(d1.syncVersions)] = GetActiveVersion(d1)

\* C9: while the active pointer names v, no usage or pair row tagged v is
\* added or deleted, except by cleanupOldVersions retiring v.
C9_CommittedRowsImmutable ==
    [][\A v \in 1..MaxSyncRuns :
          (/\ GetActiveVersion(d1) = v
           /\ ~(spc \in {"cleanup_usage", "cleanup_pairs"} /\ v \notin keep))
              => RowsOf(d1', v) = RowsOf(d1, v)]_vars

\* C10: when the stats phase has failed after startSync returned version v,
\* abortSync(v) has been invoked; and commitSync is never invoked in a run
\* in which an upload has failed.
C10_AbortOnFailure ==
    /\ (rpc \in {"abort", "finish", "done"} /\ "Stats sync failed" \in errors
            /\ version # NoVersion)
           => abortInvoked = version
    /\ rpc = "abort" => "Stats sync failed" \in errors
    /\ uploadFailed => (~commitInvoked /\ rpc \notin {"range", "commit"})

C10_Witness ==
    /\ rpc = "done"
    /\ uploadFailed
    /\ version # NoVersion
    /\ abortInvoked = version
    /\ AbortCompleted
    /\ RowsOf(d1, version) = <<{}, {}>>
    /\ GetActiveVersion(d1) # DEFAULT_VERSION

\* every usage chunk and every pair chunk of v has its rows in the store
AllChunksPresent(db, v) ==
    /\ \A c \in 1..UsageChunks : <<v, c>> \in db.usage
    /\ \A c \in 1..PairChunks : <<v, c>> \in db.pairs

\* C11: client.commitSync(v) is called only after every usage chunk and every
\* pair chunk of v was acknowledged: while the commit request is pending all
\* rows of v are in the store, the step that makes the active pointer name v
\* finds all of them there, and the pointer never names the version a run is
\* still uploading.
C11_CommitAfterUpload ==
    /\ [](rpc = "commit" => (AllChunksPresent(d1, version) /\ ~uploadFailed))
    /\ [](rpc \in {"start", "usage", "pairs", "range"}
              => (version = NoVersion \/ GetActiveVersion(d1) # version))
    /\ [][GetActiveVersion(d1') # GetActiveVersion(d1)
              => (/\ GetActiveVersion(d1') = version
                  /\ commitInvoked
                  /\ AllChunksPresent(d1', version))]_vars

\* the second version of the behaviour has been committed with all its rows
C11_Witness ==
    /\ rpc = "finish"
    /\ errors = {}
    /\ version = 2
    /\ GetActiveVersion(d1) = version
    /\ AllChunksPresent(d1, version)

\* the versions that have a metadata row, and the versions that have any row
Committed(db) == Range(db.syncVersions)
Tagged(db) == {r[1] : r \in db.usage \cup db.pairs}

\* v was committed after w (greater syncedAt)
NewerThan(db, v, w) ==
    \E a, b \in 1..Len(db.syncVersions) :
        db.syncVersions[a] = v /\ db.syncVersions[b] = w /\ a > b

\* C12: cleanupOldVersions deletes nothing when at most VERSIONS_TO_KEEP
\* versions have a metadata row; otherwise it selects the VERSIONS_TO_KEEP
\* committed versions with the greatest syncedAt, none of its deletes touches
\* a usage, pair or metadata row of a selected version, and when it returns
\* exactly the selected versions have metadata rows and no usage or pair row
\* of any other version is left.
C12_CleanupKeepsNewest ==
    [][/\ (spc = "cleanup_select" /\ rpc' = "finish")
              => (Len(d1.syncVersions) <= VERSIONS_TO_KEEP /\ d1' = d1)
       /\ (spc = "cleanup_select" /\ spc' = "cleanup_usage")
              => /\ Len(d1.syncVersions) > VERSIONS_TO_KEEP
                 /\ keep' \subseteq Committed(d1)
                 /\ Cardinality(keep') = VERSIONS_TO_KEEP
                 /\ \A k \in keep', w \in Committed(d1) \ keep' :
                        NewerThan(d1, k, w)
       /\ (spc \in {"cleanup_usage", "cleanup_pairs", "cleanup_versions"})
              => \A k \in keep :
                    /\ RowsOf(d1', k) = RowsOf(d1, k)
                    /\ k \in Committed(d1')
       /\ (spc = "cleanup_versions" /\ rpc' = "finish")
              => /\ Committed(d1') = keep
                 /\ Tagged(d1') \subseteq keep]_vars

\* four versions were committed and the cleanup of the fourth commit has
\* retired the first one
C12_Witness ==
    /\ rpc = "finish"
    /\ errors = {}
    /\ keep = {2, 3, 4}
    /\ d1.syncVersions = <<2, 3, 4>>
    /\ \A v \in keep : AllChunksPresent(d1, v)
    /\ RowsOf(d1, 1) = <<{}, {}>>

\* C13: the statements of abortSync(v) change no usage row and no pair row
\* of another version and no metadata row, and when abortSync(v) has
\* returned no usage row and no pair row tagged v is left.
C13_AbortDeletesOnlyItsVersion ==
    [][/\ (spc \in AbortSteps)
              => /\ \A w \in (1..minted) \ {version} :
                        RowsOf(d1', w) = RowsOf(d1, w)
                 /\ d1'.syncVersions = d1.syncVersions
       /\ (spc = "abort_pairs" /\ rpc' = "finish" /\ errors' = errors)
              => RowsOf(d1', version) = <<{}, {}>>]_vars

\* the second version was uploaded completely and then aborted, next to the
\* committed first one
C13_Witness ==
    /\ AbortCompleted
    /\ abortInvoked = 2
    /\ commitInvoked
    /\ RowsOf(d1, 2) = <<{}, {}>>
    /\ AllChunksPresent(d1, 1)
    /\ d1.syncVersions = <<1>>

\* C14: a statistics query resolves one version value and its statement
\* reads usage rows and pair rows of that value only, also when the active
\* pointer was switched between the resolution and the statement.
C14_OneVersionPerQuery ==
    /\ [](qpc = "returned" => \A row \in qrows : row[2][1] = qv)
    /\ [][qpc = "resolved" => qv' = qv]_vars

\* the query resolved the active version, a commit then switched the pointer
\* to a version whose rows are in the store, and the statement returned
\* usage rows and pair rows
C14_Witness ==
    /\ qpc = "returned"
    /\ qsupplied = NoVersion
    /\ qactive # qv
    /\ qv # DEFAULT_VERSION
    /\ AllChunksPresent(d1, qactive)
    /\ \E row \in qrows : row[1] = "usage"
    /\ \E row \in qrows : row[1] = "pairs"

\* the current runSync call was refused by the completeness gate
Blocked == syncRuns > 0 /\ ~options.dryRun /\ crawlComplete = "no"

\* C15: outside dry-run, a runSync call whose isCrawlComplete() answered
\* false returns at once with the one error "Scraper not finished yet": it
\* never is at a publish request, obtains no version, and the publish store
\* is not changed; a dry-run call does not ask isCrawlComplete, and every
\* other call does.
C15_GateBlocksSync ==
    /\ [](Blocked => /\ rpc = "done"
                      /\ errors = {"Scraper not finished yet"}
                      /\ version = NoVersion
                      /\ ~commitInvoked
                      /\ abortInvoked = NoVersion
                      /\ spc = "none")
    /\ [](syncRuns > 0 => (options.dryRun <=> crawlComplete = "unasked"))
    /\ []((syncRuns > 0 /\ options.dryRun)
              => (rpc \in {"finish", "done"} /\ errors = {}))
    /\ [][Blocked' => (d1' = d1 /\ minted' = minted)]_vars

\* a call was refused while a committed version is in the store
C15_Witness ==
    /\ Blocked
    /\ rpc = "done"
    /\ ~options.statsOnly /\ ~options.itemsOnly
    /\ GetActiveVersion(d1) = 1
    /\ AllChunksPresent(d1, 1)

\* the row of crawl_progress written last
LatestProgress(table) ==
    CHOOSE r \in table : \A o \in table : o.updatedAt <= r.updatedAt

\* C16: isCrawlComplete() returns true exactly when the latest progress
\* record carries exitReason COMPLETED or LIMIT_REACHED, and false when
\* there is no record or the latest one has no exitReason, whatever the
\* number of crawler names with a record.
C16_LatestRecordDecides ==
    completeResult # "none"
        => (completeResult = "true"
              <=> (/\ crawlTable # {}
                   /\ LatestProgress(crawlTable).exitReason
                          \in {"COMPLETED", "LIMIT_REACHED"}))

\* C17: every usage row and every pair row the aggregator emits has a raw
\* count of at least 3, and a (slot, item) group or an item pair with raw
\* count 1 or 2 is emitted in neither direction.
C17_PrivacyFloor ==
    aggregated =>
        /\ \A r \in usageRows :
              /\ r.usageCount >= 3
              /\ r.usageCount = UsageCount(glamour, r.slotId, r.itemId)
        /\ \A r \in pairRows :
              /\ r.pairCount >= 3
              /\ r.pairCount = PairCount(glamour, r.baseSlotId, r.partnerSlotId,
                                         r.baseItemId, r.partnerItemId)
        /\ \A s \in SLOT_IDS : \A x \in ItemsAt(glamour, s) :
              UsageCount(glamour, s, x) < 3
                  => ~ \E r \in usageRows : r.slotId = s /\ r.itemId = x
        /\ \A p \in PAIR_SLOTS :
              \A a \in ItemsAt(glamour, p.slotA), b \in ItemsAt(glamour, p.slotB) :
                  PairCount(glamour, p.slotA, p.slotB, a, b) < 3
                      => ~ \E r \in pairRows :
                             \/ /\ r.baseSlotId = p.slotA /\ r.partnerSlotId = p.slotB
                                /\ r.baseItemId = a /\ r.partnerItemId = b
                             \/ /\ r.baseSlotId = p.slotB /\ r.partnerSlotId = p.slotA
                                /\ r.baseItemId = b /\ r.partnerItemId = a

\* two characters share head 12 and body 22, three or more share other items
C17_Witness ==
    /\ aggregated
    /\ UsageCount(glamour, 1, 12) = 2
    /\ PairCount(glamour, 1, 2, 12, 22) = 2
    /\ \E r \in usageRows : r.slotId = 1 /\ r.usageCount = 3
    /\ \E r \in pairRows : r.baseSlotId = 1 /\ r.partnerSlotId = 2 /\ r.pairCount = 3

\* the candidate rows of the pair (a, b) of the slots (sa, sb), both directions
HasBothDirections(sa, sb, a, b, c) ==
    /\ \E r \in candidates :
          /\ r.baseSlotId = sa /\ r.partnerSlotId = sb
          /\ r.baseItemId = a /\ r.partnerItemId = b /\ r.pairCount = c
    /\ \E r \in candidates :
          /\ r.baseSlotId = sb /\ r.partnerSlotId = sa
          /\ r.baseItemId = b /\ r.partnerItemId = a /\ r.pairCount = c

\* the candidates of the partition (baseSlot, partnerSlot, baseItem) of r
PartitionOf(rows, r) ==
    {o \in rows : /\ o.baseSlotId = r.baseSlotId
                  /\ o.partnerSlotId = r.partnerSlotId
                  /\ o.baseItemId = r.baseItemId}

\* every candidate's partition carries the ranks 1..size, each once
RankedWithinPartition ==
    \A r \in candidates :
        LET part == PartitionOf(candidates, r)
        IN  /\ {o.rank : o \in part} = 1..Cardinality(part)
            /\ \A o \in part : o.rank = r.rank => o = r

\* C18 as stated: for each of the four slot pairs and ANY items (a, b)
\* co-occurring with count c >= 3, both directions are candidates with the
\* count c, each ranked within its own partition.
C18_BothDirectionsAnyItems ==
    aggregated =>
        /\ \A p \in PAIR_SLOTS :
              \A a \in ItemsAt(glamour, p.slotA), b \in ItemsAt(glamour, p.slotB) :
                  PairCount(glamour, p.slotA, p.slotB, a, b) >= 3
                      => HasBothDirections(p.slotA, p.slotB, a, b,
                             PairCount(glamour, p.slotA, p.slotB, a, b))
        /\ RankedWithinPartition

\* C18 (amended): for each of the four slot pairs and items (a, b), neither
\* of them on the deny-list, co-occurring with count c >= 3, both directions
\* are candidates with the count c, each ranked within its own (baseSlot,
\* partnerSlot, baseItem) partition; a pair with a deny-listed item is a
\* candidate in neither direction.
C18_BothDirections ==
    aggregated =>
        /\ \A p \in PAIR_SLOTS :
              \A a \in ItemsAt(glamour, p.slotA), b \in ItemsAt(glamour, p.slotB) :
                  LET c == PairCount(glamour, p.slotA, p.slotB, a, b)
                  IN  IF a \in EXCLUDED_ITEM_IDS \/ b \in EXCLUDED_ITEM_IDS
                      THEN ~ \E r \in candidates :
                                 {r.baseItemId, r.partnerItemId} = {a, b}
                      ELSE c >= 3 => HasBothDirections(p.slotA, p.slotB, a, b, c)
        /\ RankedWithinPartition

\* the two directions of one pair carry different ranks, and a pair with a
\* deny-listed item reached the threshold
C18_Witness ==
    /\ aggregated
    /\ \E r, o \in candidates :
          /\ r.baseSlotId = o.partnerSlotId /\ r.partnerSlotId = o.baseSlotId
          /\ r.baseItemId = o.partnerItemId /\ r.partnerItemId = o.baseItemId
          /\ r.pairCount = o.pairCount
          /\ r.rank # o.rank
    /\ PairCount(glamour, 2, 3, 21, 39) >= 3

\* C19: within each (baseSlot, partnerSlot, baseItem) partition the emitted
\* pair rows carry the ranks 1..m, m <= 10, each once, in the order of count
\* descending and partner item id ascending; a candidate with ten or more
\* candidates of its partition before it is not emitted.
C19_TopTenRanks ==
    aggregated =>
        /\ \A r \in pairRows :
              LET part == PartitionOf(pairRows, r)
                  m == Cardinality(part)
              IN  /\ m <= 10
                  /\ {o.rank : o \in part} = 1..m
                  /\ \A o \in part :
                        o # r => (o.rank < r.rank
                                    <=> \/ o.pairCount > r.pairCount
                                        \/ /\ o.pairCount = r.pairCount
                                           /\ o.partnerItemId < r.partnerItemId)
        /\ pairRows \subseteq candidates
        /\ \A r \in candidates :
              LET ahead == {o \in PartitionOf(candidates, r) :
                               \/ o.pairCount > r.pairCount
                               \/ /\ o.pairCount = r.pairCount
                                  /\ o.partnerItemId < r.partnerItemId}
              IN  r \in pairRows <=> Cardinality(ahead) < 10

\* more than ten candidates in one partition, some with equal counts: ten
\* emitted
C19_Witness ==
    /\ aggregated
    /\ \E r \in candidates \ pairRows :
          /\ Cardinality(PartitionOf(candidates, r)) > 10
          /\ Cardinality(PartitionOf(pairRows, r)) = 10
          /\ \E o, x \in PartitionOf(pairRows, r) :
                o # x /\ o.pairCount = x.pairCount /\ x.pairCount = r.pairCount
          /\ \E o \in PartitionOf(pairRows, r) : o.pairCount > r.pairCount

\* a failure the retry client retries
IsRetryableFailure(result) ==
    ~result.success /\ result.statusCode \in {429, 503, 0}

\* C20: the retry client calls the base client until the first result that
\* is a success or a non-retryable failure, or until maxRetries calls were
\* made, whichever comes first, and returns the last result; no call is made
\* after it returned.
C20_RetryBound ==
    /\ [](rtpc = "returned" =>
            /\ Len(baseCalls) \in 1..maxRetries
            /\ returned = baseCalls[Len(baseCalls)]
            /\ \A k \in 1..(Len(baseCalls) - 1) : IsRetryableFailure(baseCalls[k])
            /\ Len(baseCalls) < maxRetries
                  => ~IsRetryableFailure(baseCalls[Len(baseCalls)])
            /\ (maxRetries = 3 /\ Len(baseCalls) >= 3
                    /\ IsRetryableFailure(baseCalls[1])
                    /\ IsRetryableFailure(baseCalls[2]))
                  => (Len(baseCalls) = 3 /\ returned = baseCalls[3]))
    /\ [](rtpc # "idle" => Len(baseCalls) <= maxRetries)
    /\ [][rtpc = "returned" => baseCalls' = baseCalls]_vars

\* maxRetries = 3: two retryable failures, then a success
C20_Witness ==
    /\ rtpc = "returned"
    /\ maxRetries = 3
    /\ Len(baseCalls) = 3
    /\ baseCalls[1].statusCode = 503 /\ baseCalls[2].statusCode = 0
    /\ returned.success

\* C21: through one client instance every request after the first is issued
\* no earlier than rateLimitMs after the previous request of that instance;
\* a call made before that sleeps the remainder; the timestamp is per
\* instance: a step of one instance changes nothing of the other, and a call
\* whose own interval has elapsed is issued at once whatever the other
\* instance did.
C21_MinimumSpacing ==
    /\ [](\A c \in HttpClients :
            /\ previousRequestTime[c] > 0
                  => lastRequestTime[c] - previousRequestTime[c] >= RateLimitMs[c]
            /\ hpc[c] = "sleeping"
                  => wakeAt[c] >= lastRequestTime[c] + RateLimitMs[c])
    /\ [][\A c \in HttpClients :
            /\ hpc'[c] # hpc[c]
                  => \A o \in HttpClients \ {c} :
                        /\ lastRequestTime'[o] = lastRequestTime[o]
                        /\ wakeAt'[o] = wakeAt[o]
                        /\ hpc'[o] = hpc[o]
            /\ (/\ hpc[c] = "idle" /\ hpc'[c] # "idle"
                /\ (lastRequestTime[c] = 0
                      \/ clock - lastRequestTime[c] >= RateLimitMs[c]))
                  => (hpc'[c] = "fetching" /\ lastRequestTime'[c] = clock)
            /\ (hpc[c] = "idle" /\ hpc'[c] = "sleeping")
                  => wakeAt'[c] = lastRequestTime[c] + RateLimitMs[c]]_vars

\* instance 1 slept and issued its second request exactly one interval after
\* its first, while instance 2 issued a request in between
C21_Witness ==
    /\ requestCount[1] = 2
    /\ previousRequestTime[1] > 0
    /\ lastRequestTime[1] = previousRequestTime[1] + RateLimitMs[1]
    /\ wakeAt[1] = lastRequestTime[1]
    /\ previousRequestTime[1] < lastRequestTime[2]
    /\ lastRequestTime[2] < lastRequestTime[1]

\* C22: once a requested page contains an entry below minLevel at position
\* p, no page after it is requested, whatever its next-page link says, and
\* neither that entry's id nor the id of a later entry of the page is
\* accumulated or returned.
C22_EarlyTermination ==
    \A j \in 1..Len(pagesSeen) :
        \A p \in 1..Len(pagesSeen[j].levels) :
            pagesSeen[j].levels[p] < minLevel
                => /\ Len(pagesSeen) = j
                   /\ \A q \in p..Len(pagesSeen[j].levels) :
                         /\ EntryId(j, q) \notin Range(listIds)
                         /\ EntryId(j, q) \notin Range(fetchedIds)

\* page 2 has a next-page link, a qualifying entry, one below minLevel and
\* one qualifying again
C22_Witness ==
    /\ fpc = "returned"
    /\ Len(pagesSeen) = 2
    /\ pagesSeen[2].hasNextPage
    /\ pagesSeen[2].levels = <<100, 99, 100>>
    /\ minLevel = 100
    /\ fetchedIds = <<EntryId(1, 1), EntryId(1, 2), EntryId(2, 1)>>

\* the qualifying ids of the pages 1..n, in order
RECURSIVE QualifyingUpTo(_)
QualifyingUpTo(n) ==
    IF n = 0 THEN <<>>
    ELSE QualifyingUpTo(n - 1) \o
         SelectSeq([k \in 1..Len(pagesSeen[n].levels) |->
                        IF pagesSeen[n].levels[k] >= minLevel
                        THEN EntryId(n, k) ELSE 0],
                   LAMBDA id : id # 0)

\* C23: when the upstream call for page n fails, no further page is
\* requested and the call returns the qualifying ids of pages 1..n-1 in
\* order (the empty list when n = 1).
C23_FailureReturnsAccumulated ==
    \A n \in 1..Len(pagesSeen) :
        ~pagesSeen[n].success
            => /\ Len(pagesSeen) = n
               /\ fpc = "returned"
               /\ fetchedIds = QualifyingUpTo(n - 1)
               /\ n = 1 => fetchedIds = <<>>

\* pages 1 and 2 were read, page 3 failed
C23_Witness ==
    /\ fpc = "returned"
    /\ Len(pagesSeen) = 3
    /\ ~pagesSeen[3].success
    /\ Len(pagesSeen[1].levels) = 2 /\ Len(pagesSeen[2].levels) = 1
    /\ fetchedIds = <<EntryId(1, 1), EntryId(1, 2), EntryId(2, 1)>>

\* C24: when the fetched profile contains the opt-out marker, scrape returns
\* success with savedCount = 0 and the opt-out flag, the repository is not
\* called and neither raw rows nor item-catalog entries are written.
C24_OptOutPersistsNothing ==
    [][(/\ vci' = vci + 1 /\ profileRequested'
        /\ fetchedProfile'.http = "ok" /\ fetchedProfile'.optedOut)
          => /\ scrapeResult' = [success |-> TRUE, savedCount |-> 0,
                                 optedOut |-> TRUE, error |-> "none"]
             /\ ~repositoryCalled'
             /\ glamourRows' = glamourRows
             /\ cacheItems' = cacheItems]_vars

\* an opted-out profile showing two items was scraped: no row, no catalog entry
C24_Witness ==
    /\ vpc = "chars" /\ vci >= 1
    /\ profileRequested /\ scrapeResult.optedOut
    /\ fetchedProfile.optedOut /\ fetchedProfile.items = ProfileItems
    /\ vids[vci] \notin glamourRows
    /\ cacheItems = {}

\* C25: a failing scrape (HTTP-class or DB-class) is a result with one
\* error, counted once in errors and in nothing else; the crawl stays in the
\* key and goes on to its next character, rows of other characters and the
\* progress row are untouched, the key is checkpointed when its characters
\* are done, and only a failing checkpoint write ends the run.
C25_FailureIsLocal ==
    /\ [][(vci' = vci + 1 /\ profileRequested')
            => /\ fetchedProfile'.http = "fail"
                    => (~scrapeResult'.success /\ scrapeResult'.error = "HTTP_ERROR")
               /\ ~scrapeResult'.success
                    => /\ scrapeResult'.error \in {"HTTP_ERROR", "DB_ERROR"}
                       /\ scrapeResult'.savedCount = 0
                       /\ vstats'.errors = vstats.errors + 1
                       /\ vstats'.processedCharacters = vstats.processedCharacters
                       /\ vstats'.skippedCharacters = vstats.skippedCharacters
                       /\ vstats'.processedKeys = vstats.processedKeys
                       /\ vpc' = "chars" /\ vids' = vids /\ vkey' = vkey
                       /\ glamourRows' \ {vids[vci + 1]} = glamourRows \ {vids[vci + 1]}
                       /\ savedIndex' = savedIndex]_vars
    /\ [][(vpc = "chars" /\ vci = Len(vids) /\ ~checkpointFailed')
            => savedIndex' = vkey]_vars
    /\ [](vpc = "failed" => checkpointFailed)

\* key 0: the first character failed, the second was saved, the key is
\* checkpointed
C25_Witness ==
    /\ savedIndex = 0
    /\ vstats.processedKeys = 1
    /\ vstats.errors = 1
    /\ vstats.processedCharacters = 1
    /\ scrapeResult.success /\ scrapeResult.savedCount > 0
    /\ Len(vids) = 2 /\ vids[2] \in glamourRows

\* C26: a character for which characterExists answers true is not passed to
\* the scraper: no profile request, no repository call, no write; it is
\* counted as skipped and as nothing else.
C26_ExistingIsSkipped ==
    [][(vci' = vci + 1 /\ existsReported')
          => /\ ~profileRequested'
             /\ ~repositoryCalled'
             /\ scrapeResult' = scrapeResult
             /\ glamourRows' = glamourRows
             /\ cacheItems' = cacheItems
             /\ vstats' = [vstats EXCEPT !.skippedCharacters = @ + 1]]_vars

\* key 1: its first character had rows from before and was skipped, after a
\* character of key 0 was scraped
C26_Witness ==
    /\ vpc = "chars" /\ vkey = 1 /\ vci = 1
    /\ existsReported
    /\ vids[1] \in glamourRows
    /\ vstats.skippedCharacters = 1
    /\ vstats.processedCharacters >= 1
    /\ ~profileRequested

\* C27: when a saveProgress call throws, the run ends there: afterwards no
\* key is fetched, no character is visited and nothing is written.
C27_CheckpointFailureIsFatal ==
    /\ [](checkpointFailed => vpc = "failed")
    /\ [][checkpointFailed
            => /\ keysFetched' = keysFetched
               /\ vci' = vci
               /\ glamourRows' = glamourRows
               /\ savedIndex' = savedIndex /\ savedExit' = savedExit]_vars

\* the checkpoint of key 0 failed with a key still to come
C27_Witness ==
    /\ vpc = "failed" /\ checkpointFailed
    /\ vkey = 0 /\ keysFetched = 1
    /\ Len(vids) = 2
    /\ savedIndex = -1
    /\ vstats.processedCharacters = 2

\* ---------------------------------------------------------------------------
\* C28..C30: postItems of the publish client
\* ---------------------------------------------------------------------------

CeilDiv(n, s) == (n + s - 1) \div s

RECURSIVE SumOf(_, _)
SumOf(counts, field) ==
    IF counts = <<>> THEN 0
    ELSE counts[1][field] + SumOf(Tail(counts), field)

\* every accepted chunk was accepted at its first fetch
NoFetchFailed == \A k \in 1..Len(chunkCounts) : chunkCounts[k].requests = 1

IsRetried(status) == status \in ServerErrors \cup {NetworkFailure}

\* C29: one fetchWithRetry makes at most retryCount fetches; after its i-th
\* failed fetch (i from 0) it has slept 1000 * 2^i ms, and nothing after the
\* last one; only 5xx answers (and failed fetches) are followed by another
\* fetch; when the last fetch fails too, its error is the one thrown.
C29_RetryWithBackoff ==
    /\ Len(requestLog) <= retryCount
    /\ \A k \in 1..Len(sleptMs) : sleptMs[k] = 1000 * 2 ^ (k - 1)
    /\ \A k \in 1..(Len(requestLog) - 1) : IsRetried(requestLog[k][2])
    /\ wpc = "posting" => Len(sleptMs) = Len(requestLog)
    /\ wpc = "thrown" /\ requestLog # <<>> => Len(sleptMs) = Len(requestLog) - 1
    /\ Len(sleptMs) < retryCount \/ retryCount = 0
    /\ (wpc = "thrown" /\ requestLog # <<>> /\ IsRetried(requestLog[Len(requestLog)][2])) =>
            /\ Len(requestLog) = retryCount
            /\ thrownError[2] = requestLog[Len(requestLog)][2]
            /\ thrownError[1] \in {"Server error", "fetch failed"}
            /\ thrownError[1] = "Server error" <=> thrownError[2] >= 500

\* with the default retryCount, three 500s: slept 1000 and 2000, then thrown
C29_Witness ==
    /\ wpc = "thrown"
    /\ retryCount = 3
    /\ requestLog = <<<<1, 500>>, <<1, 500>>, <<1, 500>>>>
    /\ sleptMs = <<1000, 2000>>
    /\ thrownError = <<"Server error", 500>>

\* fetch was called and the call was answered with the status
Answered(status) ==
    /\ requestsSent' = requestsSent + 1
    /\ requestLog' # <<>>
    /\ requestLog'[Len(requestLog')] = <<chunkIndex, status>>

C31_DryRunTouchesNothing ==
    /\ [](dryRun =>
            /\ pc \in {"done"}
            /\ existingProgress = NoProgress
            /\ fetched = <<>>
            /\ scraped = 0
            /\ writes = <<>>
            /\ stats = [InitialStats EXCEPT !.totalKeys = NumKeys])
    /\ [][dryRun' => progress' = progress /\ rawStore' = rawStore]_vars

\* a dry run was made over a stored progress row and stored raw rows
C31_Witness ==
    /\ dryRun
    /\ pc = "done"
    /\ progress # NoProgress
    /\ rawStore # {}

\* C37: when scraper.scrape reports DB_ERROR for a character that had no raw
\* row, no raw row of that character is in characters_glamour afterwards, so
\* characterExists still answers false for it.
C37_DbErrorPersistsNothing ==
    [][ (/\ vci' = vci + 1
         /\ profileRequested'
         /\ scrapeResult'.error = "DB_ERROR"
         /\ vids[vci + 1] \notin glamourRows) =>
            /\ vids[vci + 1] \notin glamourRows'
            /\ ~CharacterExists(vids[vci + 1], glamourRows', FALSE)
      ]_vars

\* C35: while the key whose character-list fetch failed is being handled, no
\* progress write carries a lastCompletedShuffledIndex at or past that key.
C35_FailedKeyNotCompleted ==
    [][(vpc = "chars" /\ listFailed) => savedIndex' < vkey]_vars

\* C32: the final checkpoint of a run carries as lastCompletedShuffledIndex the
\* value of the run's last per-key checkpoint, or the value persisted before
\* when the run wrote no per-key checkpoint.
C32_FinalIndexIsLastCompleted ==
    \A j \in 1..Len(writes) :
        writes[j].exitReason # NoExit =>
            writes[j].index = IF j > 1 THEN writes[j - 1].index ELSE writes[j].before

\* C34: a run resumed from a progress record whose processedCharacters is at or
\* above the limit fetches no character list and scrapes no character, and
\* ends with exitReason = LIMIT_REACHED.
C34_ResumedAtLimitDoesNothing ==
    (pc # "idle" /\ ~dryRun /\ existingProgress # NoProgress /\ Carried >= limit) =>
        /\ fetched = <<>>
        /\ scraped = 0
        /\ pc = "done" => stats.exitReason = "LIMIT_REACHED"

\* what isCrawlComplete() answers on the progress row of the crawler
CrawlCompleteNow ==
    IF progress = NoProgress THEN "false" ELSE CompleteOn(progress)

\* C38: from the start of a non-dry run to its final checkpoint, and after the
\* run was interrupted, isCrawlComplete() answers false.
C38_NotCompleteDuringRun ==
    (~dryRun /\ pc \in {"loop", "chars", "final", "crashed"}) =>
        CrawlCompleteNow = "false"

\* C33: when the crawler is run again and again, each run resuming from the
\* progress the previous one persisted, a run eventually ends with exitReason
\* COMPLETED after every shuffled position has been processed.
C33_EventuallyCompleted ==
    <>(/\ pc = "done"
       /\ stats.exitReason = "COMPLETED"
       /\ handledKeys = 0..(NumKeys - 1))

\* C36: a character whose profile was fetched from upstream by a scrape that
\* succeeded (rows saved, opted out, or no visible item) is not fetched again,
\* however often its key is handled again after an interruption.
C36_ProfileFetchedOnce ==
    \A c \in DOMAIN profileFetches : profileFetches[c] <= 1

\* the run has uploaded rows under its version and has not asked for the commit
PendingUpload(p) == runnerPc[p] \in {"pairs", "commit"}

\* the usage chunk and the pairs chunk a run uploads under v are in the store
UploadPresent(db, v) == <<v, 1>> \in db.usage /\ <<v, 1>> \in db.pairs

\* C39: no step of another run's cleanupOldVersions removes a usage or pair
\* row of a version that is still pending (started, partly or fully uploaded,
\* not committed), and when that version is then committed, at the step that
\* makes the active pointer name it, its whole upload is in the store.
C39_PendingRowsSurviveCleanup ==
    [][\A p \in Runners :
          /\ (PendingUpload(p) /\ runnerPc'[p] = runnerPc[p])
                => RowsOf(sharedD1', runnerVersion[p])
                       = RowsOf(sharedD1, runnerVersion[p])
          /\ (runnerPc[p] = "commit" /\ runnerPc'[p] = "commit_versions")
                => UploadPresent(sharedD1', runnerVersion[p])]_vars

\* C40: no delete of cleanupOldVersions removes a usage row, a pair row or
\* the metadata row of the version the active pointer names, and once the
\* commits and cleanups of the runs have returned, also when the commits of
\* two runs interleaved, the active version has a metadata row and its whole
\* upload is in the store.
C40_ActiveVersionSurvivesCleanup ==
    /\ [][\A p \in Runners :
             (/\ runnerPc[p] \in {"cleanup_usage", "cleanup_pairs", "cleanup_versions"}
              /\ runnerPc'[p] # runnerPc[p])
                => /\ RowsOf(sharedD1', GetActiveVersion(sharedD1))
                          = RowsOf(sharedD1, GetActiveVersion(sharedD1))
                   /\ GetActiveVersion(sharedD1) \in Committed(sharedD1)
                          => GetActiveVersion(sharedD1) \in Committed(sharedD1')]_vars
    /\ []((sharedD1.meta # NoRow /\ \A p \in Runners : runnerPc[p] = "idle")
             => /\ GetActiveVersion(sharedD1) \in Committed(sharedD1)
                /\ UploadPresent(sharedD1, GetActiveVersion(sharedD1)))

====
